---- MODULE Spec2Model ----
(***************************************************************************)
(* Model of the NBA prediction service (python-model): the five feature    *)
(* calculators, the feature-vector assembler, the two prediction backends, *)
(* the model loader and the request handlers.                              *)
(*                                                                         *)
(* Numbers.  A Python float is modelled by the exact rational it stands    *)
(* for, a pair <<n, d>> in lowest terms with d > 0.  None is the empty     *)
(* tuple.  The only place where the binary representation of a float shows *)
(* is round(x, ndigits) at a decimal tie: CPython rounds the exact binary  *)
(* value, so at a tie of the rational the direction is decided by the sign *)
(* of the representation error of the float.  That sign is an input of     *)
(* the model (fp): 0 when the float is the tie itself (round-half-even),   *)
(* +1 / -1 when the float lies farther from / nearer to zero than the      *)
(* rational.  Negating a float negates its error, so fp is the same for x  *)
(* and -x.                                                                 *)
(***************************************************************************)
EXTENDS Integers, Sequences, FiniteSets, TLC

VARIABLES disk, appModel, engine, call, scraper

vars == <<disk, appModel, engine, call, scraper>>

----------------------------------------------------------------------------
(* Exact rational arithmetic *)

None == << >>

Abs(i) == IF i < 0 THEN -i ELSE i

RECURSIVE GCD(_, _)
GCD(a, b) == IF b = 0 THEN a ELSE GCD(b, a % b)

Reduce(n, d, g) == IF d < 0 THEN <<(-n) \div g, (-d) \div g>> ELSE <<n \div g, d \div g>>

Rat(n, d) == Reduce(n, d, GCD(Abs(n), Abs(d)))

Num(i) == <<i, 1>>

(* Sums and comparisons over the least common denominator, products after *)
(* cancelling across, so that no intermediate value grows needlessly.     *)
SumOver(a, b, g) ==
    Rat(a[1] * (b[2] \div g) + b[1] * (a[2] \div g), (a[2] \div g) * b[2])

ProductOver(a, b, g1, g2) ==
    Rat((a[1] \div g1) * (b[1] \div g2), (a[2] \div g2) * (b[2] \div g1))

RNeg(a) == <<-a[1], a[2]>>
RAdd(a, b) == SumOver(a, b, GCD(a[2], b[2]))
RSub(a, b) == RAdd(a, RNeg(b))
RMul(a, b) == ProductOver(a, b, GCD(Abs(a[1]), b[2]), GCD(Abs(b[1]), a[2]))
RInv(a) == IF a[1] < 0 THEN <<-a[2], -a[1]>> ELSE <<a[2], a[1]>>
RDiv(a, b) == RMul(a, RInv(b))
RSign(a) == IF a[1] > 0 THEN 1 ELSE IF a[1] < 0 THEN -1 ELSE 0
RLt(a, b) == RSign(RSub(a, b)) < 0
RLe(a, b) == RSign(RSub(a, b)) <= 0
RIsZero(a) == a[1] = 0
RAbs(a) == <<Abs(a[1]), a[2]>>
RMax(a, b) == IF RLt(a, b) THEN b ELSE a
RMin(a, b) == IF RLt(b, a) THEN b ELSE a

Zero == <<0, 1>>
One == <<1, 1>>

RECURSIVE Pow10(_)
Pow10(k) == IF k = 0 THEN 1 ELSE 10 * Pow10(k - 1)

(* f + r/d with 0 <= r < d, rounded to an integer: up past the half, down  *)
(* before it; at the half, to even when the float is the tie itself        *)
(* (fp = 0) and otherwise to the side the float lies on.                   *)
RoundOff(f, r, d, fp) ==
    IF 2 * r > d THEN f + 1
    ELSE IF 2 * r < d THEN f
    ELSE IF fp = 0 THEN f + (f % 2)
    ELSE IF fp = 1 THEN f + 1 ELSE f

RoundScaled(m, d, fp) == RoundOff(m \div d, m % d, d, fp)

RoundOver(x, s, g, fp) ==
    Rat(RSign(x) * RoundScaled(Abs(x[1]) * (s \div g), x[2] \div g, fp), s)

RoundTo(x, s, fp) == RoundOver(x, s, GCD(s, x[2]), fp)

(* round(x, ndigits) of CPython on a float standing for the rational x *)
PyRound(x, ndigits, fp) == RoundTo(x, Pow10(ndigits), fp)

Bias == {-1, 0, 1}

(* The outcome of a call: the value returned, or the exception raised. *)
Return(v) == [exc |-> "none", val |-> v]
Raise(e) == [exc |-> e, val |-> None]

----------------------------------------------------------------------------
(* app/features/adjusted_rating.py *)

calculate_adjusted_ortg(raw_ortg, sos_drtg, league_avg_drtg) ==
    IF RLe(sos_drtg, Zero) THEN Return(raw_ortg)
    ELSE Return(RMul(raw_ortg, RDiv(league_avg_drtg, sos_drtg)))

(* calculate_adjusted_drtg with the guard sos_ortg < 0 in place of <= 0 *)
calculate_adjusted_drtg_strict_guard(raw_drtg, sos_ortg, league_avg_ortg) ==
    IF RLt(sos_ortg, Zero) THEN Return(raw_drtg)
    ELSE IF RIsZero(league_avg_ortg) \/ RIsZero(sos_ortg)
    THEN Raise("ZeroDivisionError")
    ELSE Return(RDiv(raw_drtg, RDiv(sos_ortg, league_avg_ortg)))

calculate_adjusted_drtg(raw_drtg, sos_ortg, league_avg_ortg) ==
    IF RLe(sos_ortg, Zero) THEN Return(raw_drtg)
    ELSE IF RIsZero(league_avg_ortg) THEN Raise("ZeroDivisionError")
    ELSE LET adjustment == RDiv(sos_ortg, league_avg_ortg)
         IN  Return(RDiv(raw_drtg, adjustment))

HOME_COURT_ADVANTAGE == Rat(35, 10)

(* ResolveSide with the league averages, not the raw ratings, as last tier *)
ResolveSide_league_default(ortg, drtg, sos_ortg, sos_drtg, adj_ortg, adj_drtg, league_avg_ortg, league_avg_drtg) ==
    IF adj_ortg # None /\ adj_drtg # None
    THEN [exc |-> "none", o |-> adj_ortg, d |-> adj_drtg]
    ELSE IF sos_ortg # None /\ sos_drtg # None
    THEN [exc |-> calculate_adjusted_drtg(drtg, sos_ortg, league_avg_ortg).exc,
          o |-> calculate_adjusted_ortg(ortg, sos_drtg, league_avg_drtg).val,
          d |-> calculate_adjusted_drtg(drtg, sos_ortg, league_avg_ortg).val]
    ELSE [exc |-> "none", o |-> league_avg_ortg, d |-> league_avg_drtg]

(* One side of calculate_adjusted_ratings: the three tiers. *)
ResolveSide(ortg, drtg, sos_ortg, sos_drtg, adj_ortg, adj_drtg, league_avg_ortg, league_avg_drtg) ==
    IF adj_ortg # None /\ adj_drtg # None
    THEN [exc |-> "none", o |-> adj_ortg, d |-> adj_drtg]
    ELSE IF sos_ortg # None /\ sos_drtg # None
    THEN [exc |-> calculate_adjusted_drtg(drtg, sos_ortg, league_avg_ortg).exc,
          o |-> calculate_adjusted_ortg(ortg, sos_drtg, league_avg_drtg).val,
          d |-> calculate_adjusted_drtg(drtg, sos_ortg, league_avg_ortg).val]
    ELSE [exc |-> "none", o |-> ortg, d |-> drtg]

(* AdjustedRatingsOf with the home-court bonus given to the away side too *)
AdjustedRatingsOf_bonus_both(h_adj_ortg, h_adj_drtg, a_adj_ortg, a_adj_drtg, fp) ==
    LET h_adj_nrtg == RSub(h_adj_ortg, h_adj_drtg)
        a_adj_nrtg == RSub(a_adj_ortg, a_adj_drtg)
        adj_nrtg_diff == RSub(RAdd(h_adj_nrtg, HOME_COURT_ADVANTAGE),
                              RAdd(a_adj_nrtg, HOME_COURT_ADVANTAGE))
    IN  [home_adj_ortg |-> PyRound(h_adj_ortg, 2, fp),
         home_adj_drtg |-> PyRound(h_adj_drtg, 2, fp),
         home_adj_nrtg |-> PyRound(h_adj_nrtg, 2, fp),
         away_adj_ortg |-> PyRound(a_adj_ortg, 2, fp),
         away_adj_drtg |-> PyRound(a_adj_drtg, 2, fp),
         away_adj_nrtg |-> PyRound(a_adj_nrtg, 2, fp),
         adj_nrtg_diff |-> PyRound(adj_nrtg_diff, 2, fp),
         home_court_advantage |-> HOME_COURT_ADVANTAGE]

(* The net ratings, the differential and the returned dict, from the       *)
(* resolved ratings of the two sides.                                      *)
AdjustedRatingsOf(h_adj_ortg, h_adj_drtg, a_adj_ortg, a_adj_drtg, fp) ==
    LET h_adj_nrtg == RSub(h_adj_ortg, h_adj_drtg)
        a_adj_nrtg == RSub(a_adj_ortg, a_adj_drtg)
        adj_nrtg_diff == RSub(RAdd(h_adj_nrtg, HOME_COURT_ADVANTAGE), a_adj_nrtg)
    IN  [home_adj_ortg |-> PyRound(h_adj_ortg, 2, fp),
         home_adj_drtg |-> PyRound(h_adj_drtg, 2, fp),
         home_adj_nrtg |-> PyRound(h_adj_nrtg, 2, fp),
         away_adj_ortg |-> PyRound(a_adj_ortg, 2, fp),
         away_adj_drtg |-> PyRound(a_adj_drtg, 2, fp),
         away_adj_nrtg |-> PyRound(a_adj_nrtg, 2, fp),
         adj_nrtg_diff |-> PyRound(adj_nrtg_diff, 2, fp),
         home_court_advantage |-> HOME_COURT_ADVANTAGE]

AdjustedRatingsFrom(h, w, fp) ==
    IF h.exc # "none" THEN Raise(h.exc)
    ELSE IF w.exc # "none" THEN Raise(w.exc)
    ELSE Return(AdjustedRatingsOf(h.o, h.d, w.o, w.d, fp))

(* a: the keyword arguments; fp: the representation error of the values    *)
(* that are rounded.                                                       *)
calculate_adjusted_ratings(a, fp) ==
    AdjustedRatingsFrom(
        ResolveSide(a.home_ortg, a.home_drtg, a.home_sos_ortg, a.home_sos_drtg,
                    a.home_adj_ortg, a.home_adj_drtg,
                    a.league_avg_ortg, a.league_avg_drtg),
        ResolveSide(a.away_ortg, a.away_drtg, a.away_sos_ortg, a.away_sos_drtg,
                    a.away_adj_ortg, a.away_adj_drtg,
                    a.league_avg_ortg, a.league_avg_drtg),
        fp)

nrtg_to_spread(nrtg_diff) == RNeg(nrtg_diff)

----------------------------------------------------------------------------
(* app/features/four_factors.py *)

calculate_efg(fgm, fg3m, fga) ==
    IF fga = Zero THEN Return(Zero)
    ELSE Return(RDiv(RAdd(fgm, RMul(Rat(1, 2), fg3m)), fga))

calculate_tov_pct(tov, fga, fta) ==
    LET possessions == RAdd(RAdd(fga, RMul(Rat(44, 100), fta)), tov)
    IN  IF possessions = Zero THEN Return(Zero)
        ELSE Return(RDiv(tov, possessions))

calculate_oreb_pct(oreb, opp_dreb) ==
    LET total == RAdd(oreb, opp_dreb)
    IN  IF total = Zero THEN Return(Zero) ELSE Return(RDiv(oreb, total))

calculate_ftr(ftm, fga) ==
    IF fga = Zero THEN Return(Zero) ELSE Return(RDiv(ftm, fga))

(* app/config.py: Settings.efg_weight .. ftr_weight *)
efg_weight == Rat(40, 100)
tov_weight == Rat(25, 100)
oreb_weight == Rat(20, 100)
ftr_weight == Rat(15, 100)

(* t: one team's eight percentages *)
calculate_four_factors_composite(t) ==
    LET off_score ==
            RAdd(RAdd(RSub(RMul(efg_weight, t.efg), RMul(tov_weight, t.tov)),
                      RMul(oreb_weight, t.oreb)),
                 RMul(ftr_weight, t.ftr))
        def_score ==
            RAdd(RAdd(RAdd(RMul(efg_weight, RSub(One, t.opp_efg)),
                           RMul(tov_weight, t.opp_tov)),
                      RMul(oreb_weight, RSub(One, t.opp_oreb))),
                 RMul(ftr_weight, RSub(One, t.opp_ftr)))
    IN  RAdd(off_score, def_score)

FourFactorsDifferentialOf(home, away, home_composite, away_composite, fp) ==
    [efg_diff |-> PyRound(RSub(home.efg, away.efg), 4, fp),
     tov_diff |-> PyRound(RSub(away.tov, home.tov), 4, fp),
     oreb_diff |-> PyRound(RSub(home.oreb, away.oreb), 4, fp),
     ftr_diff |-> PyRound(RSub(home.ftr, away.ftr), 4, fp),
     def_efg_diff |-> PyRound(RSub(away.opp_efg, home.opp_efg), 4, fp),
     def_tov_diff |-> PyRound(RSub(home.opp_tov, away.opp_tov), 4, fp),
     def_oreb_diff |-> PyRound(RSub(away.opp_oreb, home.opp_oreb), 4, fp),
     def_ftr_diff |-> PyRound(RSub(away.opp_ftr, home.opp_ftr), 4, fp),
     home_composite |-> PyRound(home_composite, 4, fp),
     away_composite |-> PyRound(away_composite, 4, fp),
     composite |-> PyRound(RSub(home_composite, away_composite), 4, fp)]

(* calculate_four_factors_differential with the home composite computed  *)
(* for both teams                                                         *)
calculate_four_factors_differential_one_composite(home, away, fp) ==
    FourFactorsDifferentialOf(home, away, calculate_four_factors_composite(home),
                              calculate_four_factors_composite(home), fp)

(* home, away: the eight percentages of each team *)
calculate_four_factors_differential(home, away, fp) ==
    FourFactorsDifferentialOf(home, away, calculate_four_factors_composite(home),
                  calculate_four_factors_composite(away), fp)

------
(* app/features/pace_metrics.py *)

calculate_possessions(fga, oreb, tov, fta) ==
    RAdd(RAdd(RSub(fga, oreb), tov), RMul(Rat(44, 100), fta))

calculate_pace(possessions, minutes) ==
    IF minutes = Zero THEN Return(Zero)
    ELSE Return(RMul(RDiv(possessions, minutes), Num(48)))

calculate_points_per_100(points, possessions) ==
    IF possessions = Zero THEN Return(Zero)
    ELSE Return(RMul(RDiv(points, possessions), Num(100)))

DEFAULT_LEAGUE_AVG_PACE == Num(100)

(* project_game_pace regressing away from the league average *)
project_game_pace_away_from_league(home_pace, away_pace, league_avg_pace, fp) ==
    LET team_avg == RDiv(RAdd(home_pace, away_pace), Num(2))
        regression_factor == Rat(10, 100)
        projected == RSub(RMul(team_avg, RAdd(One, regression_factor)),
                          RMul(league_avg_pace, regression_factor))
    IN  PyRound(projected, 1, fp)

project_game_pace(home_pace, away_pace, league_avg_pace, fp) ==
    LET team_avg == RDiv(RAdd(home_pace, away_pace), Num(2))
        regression_factor == Rat(10, 100)
        projected == RAdd(RMul(team_avg, RSub(One, regression_factor)),
                          RMul(league_avg_pace, regression_factor))
    IN  PyRound(projected, 1, fp)

calculate_pace_metrics(home_pace, away_pace, league_avg_pace, fp) ==
    LET pace_diff == RSub(home_pace, away_pace)
        projected == project_game_pace(home_pace, away_pace, league_avg_pace, fp)
        pace_vs_league == RSub(projected, league_avg_pace)
    IN  [home_pace |-> PyRound(home_pace, 1, fp),
         away_pace |-> PyRound(away_pace, 1, fp),
         pace_diff |-> PyRound(pace_diff, 1, fp),
         projected_pace |-> projected,
         pace_vs_league |-> PyRound(pace_vs_league, 1, fp)]

pace_adjustment_factor(game_pace, league_avg_pace) ==
    IF RIsZero(league_avg_pace) THEN Raise("ZeroDivisionError")
    ELSE LET pace_deviation == RDiv(RAbs(RSub(game_pace, league_avg_pace)),
                                    league_avg_pace)
             adjustment == RSub(One, RMul(pace_deviation, Rat(1, 2)))
         IN  Return(RMax(Rat(9, 10), RMin(Rat(11, 10), adjustment)))

----------------------------------------------------------------------------
(* app/features/player_impact.py *)

(* Python truthiness of an optional number: None and 0.0 are falsy. *)
Truthy(x) == x # None /\ x # Zero

(* sum(...) over a list of numbers *)
RECURSIVE PySum(_)
PySum(values) ==
    IF values = << >> THEN Zero
    ELSE RAdd(PySum(SubSeq(values, 1, Len(values) - 1)), values[Len(values)])

(* A player is a dict: a sequence of <<key, value>> pairs. *)
PlayerGet(p, key, default) ==
    IF \E i \in 1..Len(p) : p[i][1] = key
    THEN p[CHOOSE i \in 1..Len(p) : p[i][1] = key][2]
    ELSE default

calculate_team_bpm(player_bpms) ==
    IF player_bpms = << >> THEN Zero
    ELSE IF PySum([i \in 1..Len(player_bpms) |->
                      PlayerGet(player_bpms[i], "minutes", Zero)]) = Zero
    THEN Zero
    ELSE RDiv(PySum([i \in 1..Len(player_bpms) |->
                        RMul(PlayerGet(player_bpms[i], "bpm", Zero),
                             PlayerGet(player_bpms[i], "minutes", Zero))]),
              PySum([i \in 1..Len(player_bpms) |->
                        PlayerGet(player_bpms[i], "minutes", Zero)]))

(* sorted(..., reverse=True) is stable: a player goes behind the players *)
(* of the same bpm that come before it in the list.                      *)
(* What a call of sorted(values, ...) leaves in values, ordered being the    *)
(* list it returns: list.sort() would leave ordered there, sorted() builds  *)
(* a new list and leaves values as they were handed in.                     *)
AfterSortInPlace(values, ordered) == ordered

AfterSorted(values, ordered) == values

RECURSIVE InsertByBpm(_, _)
InsertByBpm(sorted_players, p) ==
    IF sorted_players = << >> THEN <<p>>
    ELSE IF RLt(PlayerGet(Head(sorted_players), "bpm", Zero),
                PlayerGet(p, "bpm", Zero))
    THEN <<p>> \o sorted_players
    ELSE <<Head(sorted_players)>> \o InsertByBpm(Tail(sorted_players), p)

RECURSIVE SortedByBpm(_)
SortedByBpm(player_bpms) ==
    IF player_bpms = << >> THEN << >>
    ELSE InsertByBpm(SortedByBpm(SubSeq(player_bpms, 1, Len(player_bpms) - 1)),
                     player_bpms[Len(player_bpms)])

(* sorted(..., reverse=False) *)
RECURSIVE InsertByBpmAscending(_, _)
InsertByBpmAscending(sorted_players, p) ==
    IF sorted_players = << >> THEN <<p>>
    ELSE IF RLt(PlayerGet(p, "bpm", Zero),
                PlayerGet(Head(sorted_players), "bpm", Zero))
    THEN <<p>> \o sorted_players
    ELSE <<Head(sorted_players)>> \o InsertByBpmAscending(Tail(sorted_players), p)

RECURSIVE SortedByBpmAscending(_)
SortedByBpmAscending(player_bpms) ==
    IF player_bpms = << >> THEN << >>
    ELSE InsertByBpmAscending(
             SortedByBpmAscending(SubSeq(player_bpms, 1, Len(player_bpms) - 1)),
             player_bpms[Len(player_bpms)])

(* The slice s[:n] of a list *)
SliceTo(s, n) ==
    IF n >= 0 THEN SubSeq(s, 1, IF n < Len(s) THEN n ELSE Len(s))
    ELSE SubSeq(s, 1, IF Len(s) + n > 0 THEN Len(s) + n ELSE 0)

MeanBpm(top_n) ==
    IF top_n = << >> THEN Zero
    ELSE RDiv(PySum([i \in 1..Len(top_n) |-> PlayerGet(top_n[i], "bpm", Zero)]),
              Num(Len(top_n)))

(* calculate_top_n_bpm sorting in ascending order *)
calculate_top_n_bpm_ascending(player_bpms, n) ==
    IF player_bpms = << >> THEN Zero
    ELSE MeanBpm(SliceTo(SortedByBpmAscending(player_bpms), n))

calculate_top_n_bpm(player_bpms, n) ==
    IF player_bpms = << >> THEN Zero
    ELSE MeanBpm(SliceTo(SortedByBpm(player_bpms), n))

DEFAULT_REPLACEMENT_BPM == Num(-2)

IsInjured(player, injured_player_ids) ==
    /\ \E i \in 1..Len(player) : player[i][1] = "player_id"
    /\ \E j \in 1..Len(injured_player_ids) :
           injured_player_ids[j] = PlayerGet(player, "player_id", 0)

(* calculate_injury_adjusted_bpm leaving the injured players out *)
calculate_injury_adjusted_bpm_skip_injured(player_bpms, injured_player_ids, replacement_bpm) ==
    calculate_team_bpm(SelectSeq(player_bpms,
                                 LAMBDA p : ~IsInjured(p, injured_player_ids)))

calculate_injury_adjusted_bpm(player_bpms, injured_player_ids, replacement_bpm) ==
    IF player_bpms = << >> THEN Zero
    ELSE IF PySum([i \in 1..Len(player_bpms) |->
                      PlayerGet(player_bpms[i], "minutes", Zero)]) = Zero
    THEN Zero
    ELSE RDiv(PySum([i \in 1..Len(player_bpms) |->
                        IF IsInjured(player_bpms[i], injured_player_ids)
                        THEN RMul(replacement_bpm,
                                  PlayerGet(player_bpms[i], "minutes", Zero))
                        ELSE RMul(PlayerGet(player_bpms[i], "bpm", Zero),
                                  PlayerGet(player_bpms[i], "minutes", Zero))]),
              PySum([i \in 1..Len(player_bpms) |->
                        PlayerGet(player_bpms[i], "minutes", Zero)]))

(* calculate_bpm_differential testing the top-5 values for truth *)
calculate_bpm_differential_truthy_top_5(home_bpm, away_bpm, home_top_5_bpm, away_top_5_bpm, fp) ==
    LET h_bpm == IF home_bpm # None THEN home_bpm ELSE Zero
        a_bpm == IF away_bpm # None THEN away_bpm ELSE Zero
        bpm_diff == RSub(h_bpm, a_bpm)
        top_5_diff == IF Truthy(home_top_5_bpm) /\ Truthy(away_top_5_bpm)
                      THEN RSub(home_top_5_bpm, away_top_5_bpm)
                      ELSE Zero
    IN  [home_bpm |-> PyRound(h_bpm, 2, fp),
         away_bpm |-> PyRound(a_bpm, 2, fp),
         bpm_diff |-> PyRound(bpm_diff, 2, fp),
         home_top_5_bpm |-> IF Truthy(home_top_5_bpm)
                            THEN PyRound(home_top_5_bpm, 2, fp) ELSE None,
         away_top_5_bpm |-> IF Truthy(away_top_5_bpm)
                            THEN PyRound(away_top_5_bpm, 2, fp) ELSE None,
         top_5_bpm_diff |-> PyRound(top_5_diff, 2, fp)]

calculate_bpm_differential(home_bpm, away_bpm, home_top_5_bpm, away_top_5_bpm, fp) ==
    LET h_bpm == IF home_bpm # None THEN home_bpm ELSE Zero
        a_bpm == IF away_bpm # None THEN away_bpm ELSE Zero
        bpm_diff == RSub(h_bpm, a_bpm)
        top_5_diff == IF home_top_5_bpm # None /\ away_top_5_bpm # None
                      THEN RSub(home_top_5_bpm, away_top_5_bpm)
                      ELSE Zero
    IN  [home_bpm |-> PyRound(h_bpm, 2, fp),
         away_bpm |-> PyRound(a_bpm, 2, fp),
         bpm_diff |-> PyRound(bpm_diff, 2, fp),
         home_top_5_bpm |-> IF Truthy(home_top_5_bpm)
                            THEN PyRound(home_top_5_bpm, 2, fp) ELSE None,
         away_top_5_bpm |-> IF Truthy(away_top_5_bpm)
                            THEN PyRound(away_top_5_bpm, 2, fp) ELSE None,
         top_5_bpm_diff |-> PyRound(top_5_diff, 2, fp)]

----------------------------------------------------------------------------
(* app/features/line_movement.py *)

(* calculate_spread_movement reading an absent endpoint as 0 *)
calculate_spread_movement_none_as_zero(opening_spread, closing_spread) ==
    RSub(IF closing_spread = None THEN Zero ELSE closing_spread,
         IF opening_spread = None THEN Zero ELSE opening_spread)

calculate_spread_movement(opening_spread, closing_spread) ==
    IF opening_spread = None \/ closing_spread = None THEN Zero
    ELSE RSub(closing_spread, opening_spread)

calculate_total_movement(opening_total, closing_total) ==
    IF opening_total = None \/ closing_total = None THEN Zero
    ELSE RSub(closing_total, opening_total)

(* classify_line_movement with strict comparisons *)
classify_line_movement_strict(movement, threshold) ==
    IF RLt(movement, RNeg(threshold)) THEN "sharp_home"
    ELSE IF RLt(threshold, movement) THEN "sharp_away"
    ELSE "stable"

classify_line_movement(movement, threshold) ==
    IF RLe(movement, RNeg(threshold)) THEN "sharp_home"
    ELSE IF RLe(threshold, movement) THEN "sharp_away"
    ELSE "stable"

DEFAULT_MOVEMENT_THRESHOLD == Num(1)

calculate_implied_probability_shift(opening_spread, closing_spread) ==
    LET movement == calculate_spread_movement(opening_spread, closing_spread)
    IN  RMul(RNeg(movement), Rat(3, 100))

(* calculate_line_movement_features without the defaults of the spreads *)
calculate_line_movement_features_no_default(opening_spread, current_spread, opening_total, current_total, fp) ==
    [opening_spread |-> opening_spread,
     current_spread |-> current_spread,
     spread_movement |->
         PyRound(calculate_spread_movement(opening_spread, current_spread), 2, fp),
     spread_direction |->
         classify_line_movement(
             calculate_spread_movement(opening_spread, current_spread),
             DEFAULT_MOVEMENT_THRESHOLD),
     opening_total |-> opening_total,
     current_total |-> current_total,
     total_movement |->
         PyRound(calculate_total_movement(opening_total, current_total), 2, fp),
     implied_prob_shift |->
         PyRound(calculate_implied_probability_shift(opening_spread,
                                                     current_spread), 4, fp)]

calculate_line_movement_features(opening_spread, current_spread, opening_total, current_total, fp) ==
    LET spread_movement == calculate_spread_movement(opening_spread, current_spread)
        total_movement == calculate_total_movement(opening_total, current_total)
    IN  [opening_spread |-> IF opening_spread # None THEN opening_spread ELSE Zero,
         current_spread |-> IF current_spread # None THEN current_spread ELSE Zero,
         spread_movement |-> PyRound(spread_movement, 2, fp),
         spread_direction |-> classify_line_movement(spread_movement,
                                                     DEFAULT_MOVEMENT_THRESHOLD),
         opening_total |-> IF opening_total # None THEN opening_total ELSE Zero,
         current_total |-> IF current_total # None THEN current_total ELSE Zero,
         total_movement |-> PyRound(total_movement, 2, fp),
         implied_prob_shift |->
             PyRound(calculate_implied_probability_shift(opening_spread,
                                                         current_spread), 4, fp)]

----------------------------------------------------------------------------
(* Python dicts keep insertion order: a dict is a sequence of <<key, value>> *)

Keys(d) == [i \in 1..Len(d) |-> d[i][1]]

HasKey(d, k) == \E i \in 1..Len(d) : d[i][1] = k

(* d.get(k, default) *)
Get(d, k, default) ==
    IF HasKey(d, k)
    THEN d[CHOOSE i \in 1..Len(d) : d[i][1] = k][2]
    ELSE default

(* app/features/line_movement.py, the detectors *)
DEFAULT_PUBLIC_THRESHOLD == Rat(1, 2)

is_reverse_line_movement(spread_movement, public_home_pct, threshold) ==
    IF RLt(threshold, public_home_pct) /\ RLt(spread_movement, Rat(-1, 2))
    THEN TRUE
    ELSE IF RLt(public_home_pct, RSub(One, threshold))
            /\ RLt(Rat(1, 2), spread_movement)
    THEN TRUE
    ELSE FALSE

(* sorted(movements, key=timestamp) is stable: an observation goes behind *)
(* the observations of the same timestamp that come before it in the list *)
RECURSIVE InsertByTimestamp(_, _)
InsertByTimestamp(sorted_movements, x) ==
    IF sorted_movements = << >> THEN <<x>>
    ELSE IF RLt(Get(x, "timestamp", Zero),
                Get(Head(sorted_movements), "timestamp", Zero))
    THEN <<x>> \o sorted_movements
    ELSE <<Head(sorted_movements)>> \o InsertByTimestamp(Tail(sorted_movements), x)

RECURSIVE SortedByTimestamp(_)
SortedByTimestamp(movements) ==
    IF movements = << >> THEN << >>
    ELSE InsertByTimestamp(SortedByTimestamp(SubSeq(movements, 1, Len(movements) - 1)),
                           movements[Len(movements)])

(* The test of the loop body on prev and curr *)
IsSteamStep(prev, curr, threshold_points, threshold_minutes) ==
    /\ RLe(RDiv(RSub(Get(curr, "timestamp", Zero), Get(prev, "timestamp", Zero)),
                Num(60)),
           threshold_minutes)
    /\ RLe(threshold_points,
           RAbs(RSub(Get(curr, "spread", Zero), Get(prev, "spread", Zero))))

(* The loop over range(1, len(sorted_movements)) *)
SteamScan(sorted_movements, threshold_points, threshold_minutes) ==
    \E i \in 2..Len(sorted_movements) :
        IsSteamStep(sorted_movements[i - 1], sorted_movements[i],
                    threshold_points, threshold_minutes)

(* steam_move_detected comparing every pair of the window, not only *)
(* neighbours                                                       *)
steam_move_detected_windowed(movements, threshold_points, threshold_minutes) ==
    IF Len(movements) < 2 THEN FALSE
    ELSE \E i \in 1..Len(movements) : \E j \in (i + 1)..Len(movements) :
             IsSteamStep(SortedByTimestamp(movements)[i],
                         SortedByTimestamp(movements)[j],
                         threshold_points, threshold_minutes)

steam_move_detected(movements, threshold_points, threshold_minutes) ==
    IF Len(movements) < 2 THEN FALSE
    ELSE SteamScan(SortedByTimestamp(movements), threshold_points,
                   threshold_minutes)

----------------------------------------------------------------------------
(* app/models/xgboost_model.py *)

FEATURE_ORDER ==
    <<"adj_nrtg_diff", "home_adj_ortg", "home_adj_drtg", "away_adj_ortg",
      "away_adj_drtg", "efg_diff", "tov_diff", "oreb_diff", "ftr_diff",
      "def_efg_diff", "def_tov_diff", "def_oreb_diff", "def_ftr_diff",
      "four_factors_composite", "pace_diff", "projected_game_pace",
      "bpm_diff", "top_5_bpm_diff", "spread_movement", "opening_spread">>

(* A raw probability as a float: the rational p it stands for, the sign e  *)
(* of its representation error, and the sign e1 of the representation      *)
(* error of the float 1 - p.                                               *)
Prob(p, e, e1) == [p |-> p, e |-> e, e1 |-> e1]

(* XGBoostNBAModel.__init__ *)
XGBoostNBAModel(model, feature_names) ==
    [kind |-> "xgb", model |-> model,
     feature_names |-> IF feature_names = None \/ feature_names = << >>
                       THEN FEATURE_ORDER ELSE feature_names]

(* The list handed to the DMatrix. *)
_prepare_features(self, features) ==
    [i \in 1..Len(self.feature_names) |->
        LET value == Get(features, self.feature_names[i], Zero)
        IN  IF value = None THEN Zero ELSE value]

(* xgb.Booster.predict on one row.  The trained booster is a decision     *)
(* stump: one split on the column feat at thr, a probability in each leaf. *)
BoosterPredict(booster, row) ==
    IF RLt(row[booster.feat], booster.thr) THEN booster.lo ELSE booster.hi

predict_proba(self, features) ==
    BoosterPredict(self.model, _prepare_features(self, features))

(* math.log(prob / (1 - prob)) on the clamped probabilities of the model, *)
(* to 5 decimals.                                                         *)
LogOdds(prob) ==
    CASE prob = Rat(1, 100) -> Rat(-459512, 100000)
      [] prob = Rat(1, 32) -> Rat(-343399, 100000)
      [] prob = Rat(38, 100) -> Rat(-48955, 100000)
      [] prob = Rat(1, 2) -> Zero
      [] prob = Rat(62, 100) -> Rat(48955, 100000)
      [] prob = Rat(99, 100) -> Rat(459512, 100000)

_prob_to_spread_positive_k(prob) ==
    LET clamped == RMax(Rat(1, 100), RMin(Rat(99, 100), prob))
        k == Num(4)
        log_odds == LogOdds(clamped)
    IN  RMul(k, log_odds)

_prob_to_spread(prob) ==
    LET clamped == RMax(Rat(1, 100), RMin(Rat(99, 100), prob))
        k == Num(4)
        log_odds == LogOdds(clamped)
    IN  RMul(RNeg(k), log_odds)

SCORE_MIN == Num(80)
SCORE_MAX == Num(140)
HOME_COURT_BOOST == Rat(15, 10)

(* The average of the spread read off the differential and the spread *)
(* read off the probability.                                          *)
BlendedSpread(adj_nrtg_diff, home_win_prob) ==
    RDiv(RAdd(RNeg(adj_nrtg_diff), _prob_to_spread(home_win_prob)), Num(2))

(* spread_adjustment without the halving *)
SpreadAdjustment_whole(predicted_spread, score_diff) ==
    RSub(RMul(predicted_spread, Num(-1)), score_diff)

SpreadAdjustment(predicted_spread, score_diff) ==
    RDiv(RSub(RMul(predicted_spread, Num(-1)), score_diff), Num(2))

(* The scores before the corrective pass: efficiency times pace, the home *)
(* court boost, the clamp to the 80-140 range.                            *)
ClampedScores(features) ==
    LET projected_pace == Get(features, "projected_game_pace", Num(100))
        home_ortg == Get(features, "home_adj_ortg", Num(110))
        home_drtg == Get(features, "home_adj_drtg", Num(110))
        away_ortg == Get(features, "away_adj_ortg", Num(110))
        away_drtg == Get(features, "away_adj_drtg", Num(110))
        home_efficiency == RDiv(RAdd(home_ortg, away_drtg), Num(2))
        away_efficiency == RDiv(RAdd(away_ortg, home_drtg), Num(2))
        possessions == projected_pace
    IN  [predicted_home_score |->
             RMax(SCORE_MIN, RMin(SCORE_MAX,
                 RAdd(RMul(RDiv(home_efficiency, Num(100)), possessions),
                      HOME_COURT_BOOST))),
         predicted_away_score |->
             RMax(SCORE_MIN, RMin(SCORE_MAX,
                 RSub(RMul(RDiv(away_efficiency, Num(100)), possessions),
                      HOME_COURT_BOOST)))]

(* The corrective pass on the clamped scores *)
CorrectedScores(clamped, predicted_spread) ==
    [predicted_total |->
         RAdd(clamped.predicted_home_score, clamped.predicted_away_score),
     predicted_home_score |->
         RAdd(clamped.predicted_home_score,
              SpreadAdjustment(predicted_spread,
                               RSub(clamped.predicted_home_score,
                                    clamped.predicted_away_score))),
     predicted_away_score |->
         RSub(clamped.predicted_away_score,
              SpreadAdjustment(predicted_spread,
                               RSub(clamped.predicted_home_score,
                                    clamped.predicted_away_score)))]

(* The unrounded scores and total of the branch projected_pace > 0 *)
PredictedScores(features, predicted_spread) ==
    CorrectedScores(ClampedScores(features), predicted_spread)

(* XGBoostNBAModel.predict.  An arithmetic operation on a None read from  *)
(* the dict raises TypeError.                                              *)
XGBoostNBAModel_predict(self, features, fp) ==
    LET pr == predict_proba(self, features)
        home_win_prob == pr.p
        away_win_prob == RSub(One, home_win_prob)
        confidence == RMul(RAbs(RSub(home_win_prob, Rat(1, 2))), Num(2))
        adj_nrtg_diff == Get(features, "adj_nrtg_diff", Zero)
        projected_pace == Get(features, "projected_game_pace", Num(100))
        home_ortg == Get(features, "home_adj_ortg", Num(110))
        home_drtg == Get(features, "home_adj_drtg", Num(110))
        away_ortg == Get(features, "away_adj_ortg", Num(110))
        away_drtg == Get(features, "away_adj_drtg", Num(110))
    IN  IF adj_nrtg_diff = None \/ projected_pace = None THEN Raise("TypeError")
        ELSE IF RLt(Zero, projected_pace)
                /\ None \in {home_ortg, home_drtg, away_ortg, away_drtg}
        THEN Raise("TypeError")
        ELSE
        LET predicted_spread == BlendedSpread(adj_nrtg_diff, home_win_prob)
            scored == RLt(Zero, projected_pace)
            predicted_total ==
                IF scored
                THEN PredictedScores(features, predicted_spread).predicted_total
                ELSE None
            predicted_home_score ==
                IF scored
                THEN PredictedScores(features, predicted_spread).predicted_home_score
                ELSE None
            predicted_away_score ==
                IF scored
                THEN PredictedScores(features, predicted_spread).predicted_away_score
                ELSE None
        IN  Return([home_win_prob |-> PyRound(home_win_prob, 4, pr.e),
                    away_win_prob |-> PyRound(away_win_prob, 4, pr.e1),
                    predicted_spread |-> PyRound(predicted_spread, 1, fp),
                    predicted_total |->
                        IF Truthy(predicted_total)
                        THEN PyRound(predicted_total, 1, fp) ELSE None,
                    predicted_home_score |->
                        IF Truthy(predicted_home_score)
                        THEN PyRound(predicted_home_score, 1, fp) ELSE None,
                    predicted_away_score |->
                        IF Truthy(predicted_away_score)
                        THEN PyRound(predicted_away_score, 1, fp) ELSE None,
                    confidence |-> PyRound(confidence, 4, fp)])

(* The list comprehension of predict_batch from element i on: an exception *)
(* of one predict leaves the comprehension.                                *)
RECURSIVE PredictEach(_, _, _, _, _)
PredictEach(self, features_list, fp, i, done) ==
    IF i > Len(features_list) THEN Return(done)
    ELSE IF XGBoostNBAModel_predict(self, features_list[i], fp).exc # "none"
    THEN Raise(XGBoostNBAModel_predict(self, features_list[i], fp).exc)
    ELSE PredictEach(self, features_list, fp, i + 1,
             Append(done, XGBoostNBAModel_predict(self, features_list[i], fp).val))

(* XGBoostNBAModel.predict_batch: [self.predict(f) for f in features_list] *)
XGBoostNBAModel_predict_batch(self, features_list, fp) ==
    PredictEach(self, features_list, fp, 1, << >>)

FallbackModel == [kind |-> "fallback"]

(* The double -66.0229170085739, written to the 4 decimals the model keeps. *)
TieDelta == Rat(-660229, 10000)

(* The double 1 / (1 + math.exp(-0.15 * d)) for the differentials d of the  *)
(* model, to 6 decimals, with the signs of the representation errors of the *)
(* double and of the double 1 - p.  math.exp overflows past 709.78.         *)
Logistic(d) ==
    CASE d = Zero -> Return(Prob(Rat(1, 2), 0, 0))
      [] d = Rat(4, 100) -> Return(Prob(Rat(501500, 1000000), -1, 1))
      [] d = Rat(-4, 100) -> Return(Prob(Rat(498500, 1000000), 1, -1))
      [] d = Rat(35, 10) -> Return(Prob(Rat(628316, 1000000), 1, -1))
      [] d = Rat(-35, 10) -> Return(Prob(Rat(371684, 1000000), -1, 1))
      [] d = Num(10) -> Return(Prob(Rat(817574, 1000000), 1, -1))
      [] d = Num(-10) -> Return(Prob(Rat(182426, 1000000), -1, 1))
      [] d = Rat(-145, 10) -> Return(Prob(Rat(102018, 1000000), 1, -1))
      [] d = Num(-440) -> Return(Prob(Zero, 1, 0))
      [] d = TieDelta -> Return(Prob(Rat(5, 100000), 1, 1))
      [] d = Num(-5000) -> Raise("OverflowError")

FallbackModel_predict(features, fp) ==
    LET adj_nrtg_diff == Get(features, "adj_nrtg_diff", Zero)
    IN  IF adj_nrtg_diff = None THEN Raise("TypeError")
        ELSE LET lg == Logistic(adj_nrtg_diff)
             IN  IF lg.exc # "none" THEN Raise(lg.exc)
                 ELSE
                 LET home_win_prob == lg.val.p
                     away_win_prob == RSub(One, home_win_prob)
                     confidence ==
                         RMul(RAbs(RSub(home_win_prob, Rat(1, 2))), Num(2))
                 IN  Return([home_win_prob |->
                                 PyRound(home_win_prob, 4, lg.val.e),
                             away_win_prob |->
                                 PyRound(away_win_prob, 4, lg.val.e1),
                             predicted_spread |->
                                 PyRound(RNeg(adj_nrtg_diff), 1, fp),
                             predicted_total |-> None,
                             confidence |-> PyRound(confidence, 4, fp)])

----------------------------------------------------------------------------
(* training/historical_data.py *)

get_feature_columns ==
    <<"adj_nrtg_diff", "home_adj_ortg", "home_adj_drtg", "away_adj_ortg",
      "away_adj_drtg", "efg_diff", "tov_diff", "oreb_diff", "ftr_diff",
      "def_efg_diff", "def_tov_diff", "def_oreb_diff", "def_ftr_diff",
      "four_factors_composite", "pace_diff", "projected_game_pace",
      "bpm_diff", "top_5_bpm_diff", "spread_movement", "opening_spread">>

(* The four-factor weights written out in _calculate_features *)
TrainingComposite(efg_diff, tov_diff, oreb_diff, ftr_diff, def_efg_diff, def_tov_diff, def_oreb_diff, def_ftr_diff) ==
    RAdd(RAdd(RAdd(RAdd(RAdd(RAdd(RAdd(
        RMul(Rat(40, 100), efg_diff),
        RMul(Rat(25, 100), tov_diff)),
        RMul(Rat(20, 100), oreb_diff)),
        RMul(Rat(15, 100), ftr_diff)),
        RMul(Rat(40, 100), def_efg_diff)),
        RMul(Rat(25, 100), def_tov_diff)),
        RMul(Rat(20, 100), def_oreb_diff)),
        RMul(Rat(15, 100), def_ftr_diff))

(* HistoricalDataLoader._calculate_features on one row of the frame: the *)
(* columns it adds, and the four columns of the row that are features.   *)
_calculate_features(row) ==
    <<<<"home_won", IF RLt(row.away_score, row.home_score) THEN 1 ELSE 0>>,
      <<"home_adj_nrtg", RSub(row.home_adj_ortg, row.home_adj_drtg)>>,
      <<"away_adj_nrtg", RSub(row.away_adj_ortg, row.away_adj_drtg)>>,
      <<"adj_nrtg_diff",
        RAdd(RSub(RSub(row.home_adj_ortg, row.home_adj_drtg),
                  RSub(row.away_adj_ortg, row.away_adj_drtg)), Rat(35, 10))>>,
      <<"efg_diff", RSub(row.home_efg, row.away_efg)>>,
      <<"tov_diff", RSub(row.away_tov, row.home_tov)>>,
      <<"oreb_diff", RSub(row.home_oreb, row.away_oreb)>>,
      <<"ftr_diff", RSub(row.home_ftr, row.away_ftr)>>,
      <<"def_efg_diff", RSub(row.away_opp_efg, row.home_opp_efg)>>,
      <<"def_tov_diff", RSub(row.home_opp_tov, row.away_opp_tov)>>,
      <<"def_oreb_diff", RSub(row.away_opp_oreb, row.home_opp_oreb)>>,
      <<"def_ftr_diff", RSub(row.away_opp_ftr, row.home_opp_ftr)>>,
      <<"four_factors_composite",
        TrainingComposite(RSub(row.home_efg, row.away_efg),
                          RSub(row.away_tov, row.home_tov),
                          RSub(row.home_oreb, row.away_oreb),
                          RSub(row.home_ftr, row.away_ftr),
                          RSub(row.away_opp_efg, row.home_opp_efg),
                          RSub(row.home_opp_tov, row.away_opp_tov),
                          RSub(row.away_opp_oreb, row.home_opp_oreb),
                          RSub(row.away_opp_ftr, row.home_opp_ftr))>>,
      <<"pace_diff", RSub(row.home_pace, row.away_pace)>>,
      <<"projected_game_pace",
        RDiv(RAdd(row.home_pace, row.away_pace), Num(2))>>,
      <<"bpm_diff", RSub(row.home_bpm, row.away_bpm)>>,
      <<"top_5_bpm_diff", RSub(row.home_top_5_bpm, row.away_top_5_bpm)>>,
      <<"spread_movement", RSub(row.closing_spread, row.opening_spread)>>,
      <<"home_adj_ortg", row.home_adj_ortg>>,
      <<"home_adj_drtg", row.home_adj_drtg>>,
      <<"away_adj_ortg", row.away_adj_ortg>>,
      <<"away_adj_drtg", row.away_adj_drtg>>,
      <<"opening_spread", row.opening_spread>>>>

----------------------------------------------------------------------------
(* app/api/routes/predictions.py *)

DEFAULT_LEAGUE_AVG == Num(110)

(* x or 110.0 *)
OrDefault(x, default) == IF Truthy(x) THEN x ELSE default

FourFactorsOf(team) ==
    [efg |-> team.efg_pct, tov |-> team.tov_pct, oreb |-> team.oreb_pct,
     ftr |-> team.ftr, opp_efg |-> team.opp_efg_pct,
     opp_tov |-> team.opp_tov_pct, opp_oreb |-> team.opp_oreb_pct,
     opp_ftr |-> team.opp_ftr]

(* The keyword arguments build_feature_vector passes on. *)
AdjustedRatingArgs(request) ==
    [home_ortg |-> request.home_team.off_rating,
     home_drtg |-> request.home_team.def_rating,
     away_ortg |-> request.away_team.off_rating,
     away_drtg |-> request.away_team.def_rating,
     home_sos_ortg |-> request.home_sos_ortg,
     home_sos_drtg |-> request.home_sos_drtg,
     away_sos_ortg |-> request.away_sos_ortg,
     away_sos_drtg |-> request.away_sos_drtg,
     league_avg_ortg |-> OrDefault(request.league_avg_ortg, DEFAULT_LEAGUE_AVG),
     league_avg_drtg |-> OrDefault(request.league_avg_drtg, DEFAULT_LEAGUE_AVG),
     home_adj_ortg |-> request.home_team.adj_off_rating,
     home_adj_drtg |-> request.home_team.adj_def_rating,
     away_adj_ortg |-> request.away_team.adj_off_rating,
     away_adj_drtg |-> request.away_team.adj_def_rating]

(* The dict build_feature_vector returns, from the five feature groups. *)
FeatureVectorOf(adj_ratings, four_factors, pace, bpm, line) ==
    <<<<"adj_nrtg_diff", adj_ratings.adj_nrtg_diff>>,
      <<"home_adj_ortg", adj_ratings.home_adj_ortg>>,
      <<"home_adj_drtg", adj_ratings.home_adj_drtg>>,
      <<"away_adj_ortg", adj_ratings.away_adj_ortg>>,
      <<"away_adj_drtg", adj_ratings.away_adj_drtg>>,
      <<"efg_diff", four_factors.efg_diff>>,
      <<"tov_diff", four_factors.tov_diff>>,
      <<"oreb_diff", four_factors.oreb_diff>>,
      <<"ftr_diff", four_factors.ftr_diff>>,
      <<"def_efg_diff", four_factors.def_efg_diff>>,
      <<"def_tov_diff", four_factors.def_tov_diff>>,
      <<"def_oreb_diff", four_factors.def_oreb_diff>>,
      <<"def_ftr_diff", four_factors.def_ftr_diff>>,
      <<"four_factors_composite", four_factors.composite>>,
      <<"pace_diff", pace.pace_diff>>,
      <<"projected_game_pace", pace.projected_pace>>,
      <<"bpm_diff", bpm.bpm_diff>>,
      <<"top_5_bpm_diff", bpm.top_5_bpm_diff>>,
      <<"spread_movement", line.spread_movement>>,
      <<"opening_spread", line.opening_spread>>>>

(* An exception of calculate_adjusted_ratings leaves build_feature_vector. *)
FeatureVectorFrom(adj, four_factors, pace, bpm, line) ==
    IF adj.exc # "none" THEN Raise(adj.exc)
    ELSE Return(FeatureVectorOf(adj.val, four_factors, pace, bpm, line))

build_feature_vector(request) ==
    FeatureVectorFrom(
        calculate_adjusted_ratings(AdjustedRatingArgs(request), request.fp),
        calculate_four_factors_differential(FourFactorsOf(request.home_team),
                                            FourFactorsOf(request.away_team),
                                            request.fp),
        calculate_pace_metrics(request.home_team.pace, request.away_team.pace,
                               DEFAULT_LEAGUE_AVG_PACE, request.fp),
        calculate_bpm_differential(request.home_team.team_bpm,
                                   request.away_team.team_bpm,
                                   request.home_team.top_5_bpm,
                                   request.away_team.top_5_bpm, request.fp),
        calculate_line_movement_features(request.opening_spread,
                                         request.current_spread,
                                         None, None, request.fp))

MODEL_VERSION == "v1.0.0"

(* model.predict of whichever backend the caller holds *)
ModelPredict(model, features, fp) ==
    IF model.kind = "xgb" THEN XGBoostNBAModel_predict(model, features, fp)
    ELSE FallbackModel_predict(features, fp)

(* PredictionResponse(...) of one game, generated_at left out (the clock is *)
(* not modelled).                                                           *)
PredictionResponse(request, prediction, feature_vector) ==
    [game_id |-> request.game_id,
     home_team |-> request.home_team.team_name,
     away_team |-> request.away_team.team_name,
     home_win_probability |-> prediction.home_win_prob,
     away_win_probability |-> prediction.away_win_prob,
     predicted_winner |-> IF RLt(Rat(1, 2), prediction.home_win_prob)
                          THEN request.home_team.team_name
                          ELSE request.away_team.team_name,
     predicted_spread |-> prediction.predicted_spread,
     predicted_total |-> prediction.predicted_total,
     confidence |-> prediction.confidence,
     model_version |-> MODEL_VERSION,
     feature_vector |-> feature_vector]

(* An HTTP outcome: the status and the body.  The handlers catch nothing: *)
(* an exception that leaves one is answered by the server with a 500.    *)
Http(status, body) == [status |-> status, body |-> body]

IsNoModel(model) == model.kind \in {"unset", "none"}

(* predict_game after model.predict: the response, or the 500 of an     *)
(* exception of model.predict.                                           *)
GameResponse(request, prediction, feature_vector) ==
    IF prediction.exc # "none" THEN Http(500, prediction.exc)
    ELSE Http(200, PredictionResponse(request, prediction.val, feature_vector))

(* predict_game after build_feature_vector *)
GamePrediction(model, request, fv) ==
    IF fv.exc # "none" THEN Http(500, fv.exc)
    ELSE GameResponse(request, ModelPredict(model, fv.val, request.fp), fv.val)

(* Handler of POST /predict/ *)
predict_game(model, request) ==
    IF IsNoModel(model) THEN Http(503, "Model not loaded")
    ELSE GamePrediction(model, request, build_feature_vector(request))

RECURSIVE BatchLoop(_, _, _, _)

(* BatchAppend with the response put at the head of the list *)
BatchAppend_prepend(model, games, i, predictions, feature_vector, prediction) ==
    IF prediction.exc # "none" THEN Http(500, prediction.exc)
    ELSE BatchLoop(model, games, i + 1,
                   <<PredictionResponse(games[i], prediction.val,
                                        feature_vector)>> \o predictions)

(* The loop body after model.predict: the response is appended and the    *)
(* loop goes on; an exception ends the whole batch with a 500.            *)
BatchAppend(model, games, i, predictions, feature_vector, prediction) ==
    IF prediction.exc # "none" THEN Http(500, prediction.exc)
    ELSE BatchLoop(model, games, i + 1,
                   Append(predictions,
                          PredictionResponse(games[i], prediction.val,
                                             feature_vector)))

(* The loop body after build_feature_vector *)
BatchPrediction(model, games, i, predictions, fv) ==
    IF fv.exc # "none" THEN Http(500, fv.exc)
    ELSE BatchAppend(model, games, i, predictions, fv.val,
                     ModelPredict(model, fv.val, games[i].fp))

(* The for loop of POST /predict/batch from game i on; predictions is the  *)
(* list appended to so far.                                                *)
BatchLoop(model, games, i, predictions) ==
    IF i > Len(games)
    THEN Http(200, [predictions |-> predictions,
                    total_games |-> Len(predictions),
                    model_version |-> MODEL_VERSION])
    ELSE BatchPrediction(model, games, i, predictions,
                         build_feature_vector(games[i]))

(* predict_batch without the check of the model *)
predict_batch_no_guard(model, games) ==
    BatchLoop(model, games, 1, << >>)

(* Handler of POST /predict/batch *)
predict_batch(model, games) ==
    IF IsNoModel(model) THEN Http(503, "Model not loaded")
    ELSE BatchLoop(model, games, 1, << >>)

----------------------------------------------------------------------------
(* app/models/model_loader.py *)

(* app/config.py: Settings.model_path *)
MODEL_PATH == "models/xgb_nba_v1.json"

(* model_path.replace(".json", "_metadata.json")                           *)
(*           .replace(".bin", "_metadata.json")                            *)
MetadataPath(model_path) ==
    CASE model_path = "models/xgb_nba_v1.json" -> "models/xgb_nba_v1_metadata.json"
      [] model_path = "models/xgb_nba_v1.bin" -> "models/xgb_nba_v1_metadata.json"
      [] model_path = "models/xgb_nba_v1.ubj" -> "models/xgb_nba_v1.ubj"
      [] model_path = "models/xgb_nba_v1" -> "models/xgb_nba_v1"
      [] model_path = "models/xgb_nba_v1.bin.json" ->
             "models/xgb_nba_v1_metadata.json_metadata.json"

(* What a path of the disk holds. *)
Absent == [kind |-> "absent", body |-> None]
Garbage == [kind |-> "garbage", body |-> None]
BoosterFile(booster) == [kind |-> "booster", body |-> booster]
MetadataFile(metadata) == [kind |-> "metadata", body |-> metadata]

load_model(fs, model_path) ==
    IF fs[model_path].kind = "absent" THEN Raise("FileNotFoundError")
    ELSE IF fs[model_path].kind # "booster" THEN Raise("XGBoostError")
    ELSE LET booster == fs[model_path].body
             metadata_path == MetadataPath(model_path)
         IN  IF fs[metadata_path].kind = "absent"
             THEN Return(XGBoostNBAModel(booster, FEATURE_ORDER))
             ELSE IF fs[metadata_path].kind # "metadata"
             THEN Raise("JSONDecodeError")
             ELSE Return(XGBoostNBAModel(booster,
                             Get(fs[metadata_path].body, "feature_names",
                                 FEATURE_ORDER)))

(* meta[key] = value *)
SetItem(d, key, value) ==
    IF HasKey(d, key)
    THEN [i \in 1..Len(d) |-> IF d[i][1] = key THEN <<key, value>> ELSE d[i]]
    ELSE Append(d, <<key, value>>)

(* The disk after save_model(model, model_path, feature_names, metadata):   *)
(* the booster is written first, the metadata file after it.                *)
save_model(fs, model, model_path, feature_names, metadata) ==
    LET metadata_path == MetadataPath(model_path)
        meta == IF metadata = None THEN << >> ELSE metadata
        names == IF feature_names = None THEN FEATURE_ORDER ELSE feature_names
    IN  [[fs EXCEPT ![model_path] = BoosterFile(model)]
            EXCEPT ![metadata_path] = MetadataFile(SetItem(meta, "feature_names", names))]

(* load_model_or_fallback with the except FileNotFoundError clause alone *)
load_model_or_fallback_file_only(fs, model_path) ==
    LET loaded == load_model(fs, model_path)
    IN  IF loaded.exc = "none" THEN Return(loaded.val)
        ELSE IF loaded.exc = "FileNotFoundError" THEN Return(FallbackModel)
        ELSE Raise(loaded.exc)

load_model_or_fallback(fs, model_path) ==
    LET loaded == load_model(fs, model_path)
    IN  IF loaded.exc = "none" THEN Return(loaded.val)
        ELSE IF loaded.exc = "FileNotFoundError" THEN Return(FallbackModel)
        ELSE Return(FallbackModel)

----------------------------------------------------------------------------
(* app/main.py, app/api/routes/health.py *)

Unset == [kind |-> "unset"]
NoModel == [kind |-> "none"]

(* The startup half of lifespan: the value left in app.state.model. *)
lifespan(fs) ==
    LET loaded == load_model(fs, MODEL_PATH)
    IN  IF loaded.exc = "none" THEN loaded.val
        ELSE IF loaded.exc = "FileNotFoundError" THEN NoModel
        ELSE NoModel

health_check(model) ==
    Http(200, [status |-> IF ~IsNoModel(model) THEN "healthy" ELSE "degraded",
               model_loaded |-> ~IsNoModel(model),
               model_version |-> IF ~IsNoModel(model) THEN MODEL_VERSION
                                 ELSE "None"])

(* Handler of GET /health/ready; settings is never None. *)
readiness_check(model) ==
    Http(200, [ready |-> ~IsNoModel(model) /\ TRUE,
               checks |-> [model_loaded |-> ~IsNoModel(model),
                           config_valid |-> TRUE]])

----------------------------------------------------------------------------
(* The inputs of the model *)

Team(id, off, def, pace, ff, adj_off, adj_def, bpm, top5) ==
    [team_id |-> id, team_name |-> id,
     off_rating |-> off, def_rating |-> def, net_rating |-> RSub(off, def),
     pace |-> pace,
     efg_pct |-> ff[1], tov_pct |-> ff[2], oreb_pct |-> ff[3], ftr |-> ff[4],
     opp_efg_pct |-> ff[5], opp_tov_pct |-> ff[6], opp_oreb_pct |-> ff[7],
     opp_ftr |-> ff[8],
     adj_off_rating |-> adj_off, adj_def_rating |-> adj_def,
     adj_net_rating |-> None,
     team_bpm |-> bpm, top_5_bpm |-> top5]

Teams ==
    { Team("BOS", Rat(1182, 10), Rat(1105, 10), Rat(993, 10),
           <<Rat(57235, 100000), Rat(12, 100), Rat(25, 100), Rat(20, 100),
             Rat(52, 100), Rat(14, 100), Rat(24, 100), Rat(19, 100)>>,
           None, None, None, None),
      Team("LAL", Rat(112005, 1000), Rat(113125, 1000), Rat(10125, 100),
           <<Rat(50, 100), Rat(15, 100), Rat(30, 100), Rat(25, 100),
             Rat(55, 100), Rat(12, 100), Rat(28, 100), Rat(28, 100)>>,
           Rat(1134, 10), Rat(1129, 10), Rat(15, 10), Rat(32, 10)),
      Team("DET", Num(110), Num(110), Num(100),
           <<Rat(1, 2), Rat(1, 2), Rat(1, 2), Rat(1, 2),
             Rat(1, 2), Rat(1, 2), Rat(1, 2), Rat(1, 2)>>,
           Num(111), None, Zero, Zero),
      Team("NYK", Rat(112005, 1000), Num(110), Rat(985, 10),
           <<Rat(54, 100), Rat(13, 100), Rat(27, 100), Rat(22, 100),
             Rat(53, 100), Rat(13, 100), Rat(26, 100), Rat(21, 100)>>,
           None, None, None, None) }

Sos(ho, hd, ao, ad) ==
    [home_sos_ortg |-> ho, home_sos_drtg |-> hd,
     away_sos_ortg |-> ao, away_sos_drtg |-> ad]

SosOptions ==
    { Sos(None, None, None, None),
      Sos(Num(100), Num(125), Num(88), Num(110)),
      Sos(Num(100), None, None, Num(110)),
      Sos(Zero, Num(125), Num(100), Num(-3)) }

SpreadOptions ==
    { <<None, None>>, <<Num(-3), Rat(-45, 10)>>, <<Num(-3), None>>,
      <<None, Rat(25, 10)>> }

LeagueAvgOptions == { <<Num(110), Num(110)>>, <<None, Zero>>, <<Num(100), Num(88)>> }

PredictionRequest(home, away, sos, spread, lavg, fp) ==
    [game_id |-> <<away.team_id, home.team_id>>,
     home_team |-> home, away_team |-> away,
     opening_spread |-> spread[1], current_spread |-> spread[2],
     opening_total |-> None, current_total |-> None,
     home_sos_ortg |-> sos.home_sos_ortg, home_sos_drtg |-> sos.home_sos_drtg,
     away_sos_ortg |-> sos.away_sos_ortg, away_sos_drtg |-> sos.away_sos_drtg,
     league_avg_ortg |-> lavg[1], league_avg_drtg |-> lavg[2],
     fp |-> fp]

Requests ==
    { PredictionRequest(home, away, sos, spread, lavg, fp) :
        home \in Teams, away \in Teams, sos \in SosOptions,
        spread \in SpreadOptions, lavg \in LeagueAvgOptions, fp \in Bias }

(* The games of a batch request. *)
BatchGames ==
    { r \in Requests :
        /\ r.fp = 0
        /\ r.league_avg_ortg = Num(110)
        /\ r.home_sos_ortg = None
        /\ r.opening_spread = None /\ r.current_spread = None
        /\ r.home_team.team_id # r.away_team.team_id
        /\ r.home_team.team_id \in {"BOS", "LAL"}
        /\ r.away_team.team_id \in {"BOS", "LAL", "NYK"} }

MaxBatch == 2

SeqsUpTo(S, n) == UNION { [1..k -> S] : k \in 0..n }

(* The trained boosters and the disks they are saved on. *)
Stump(feat, thr, lo, hi) == [feat |-> feat, thr |-> thr, lo |-> lo, hi |-> hi]

Booster1 == Stump(1, Zero, Prob(Rat(38, 100), -1, 1), Prob(Rat(62, 100), 1, -1))
Booster2 == Stump(16, Num(100), Prob(Rat(1, 20000), 1, -1),
                  Prob(Rat(19999, 20000), -1, 1))
Booster3 == Stump(1, Rat(35, 10), Prob(Zero, 0, 0), Prob(One, 0, 0))
Booster4 == Stump(19, Zero, Prob(Rat(1, 32), 0, 0), Prob(Rat(1, 2), 0, 0))

Disk(model, meta) ==
    (MODEL_PATH :> model) @@ (MetadataPath(MODEL_PATH) :> meta)

Disks ==
    { Disk(Absent, Absent),
      Disk(Garbage, Absent),
      Disk(BoosterFile(Booster1), Absent),
      Disk(BoosterFile(Booster2),
           MetadataFile(<< <<"feature_names", FEATURE_ORDER>> >>)),
      Disk(BoosterFile(Booster1), Garbage),
      Disk(BoosterFile(Booster3), MetadataFile(<< >>)),
      Disk(BoosterFile(Booster4),
           MetadataFile(<< <<"feature_names", FEATURE_ORDER>> >>)) }

(* The differentials handed to a backend directly. *)
NrtgGrid ==
    { Zero, Rat(4, 100), Rat(-4, 100), Rat(35, 10), Rat(-35, 10), Num(10),
      Num(-10), TieDelta, Num(-440), Num(-5000) }

FeatureDicts ==
    { << >>, << <<"adj_nrtg_diff", None>> >> }
      \cup { << <<"adj_nrtg_diff", d>> >> : d \in NrtgGrid }
      \cup { << <<"adj_nrtg_diff", d>>, <<"projected_game_pace", q>> >> :
               d \in {Rat(35, 10), Num(-10)}, q \in {Zero, Rat(985, 10)} }
      \cup { << <<"adj_nrtg_diff", Rat(35, 10)>>,
                <<"projected_game_pace", Rat(1011, 10)>>,
                <<"home_adj_ortg", h>>, <<"home_adj_drtg", Rat(1129, 10)>>,
                <<"away_adj_ortg", Rat(11205, 100)>>, <<"away_adj_drtg", h>> >> :
               h \in {Rat(1134, 10), Num(150)} }
      \cup { << <<"adj_nrtg_diff", Rat(-145, 10)>>,
                <<"projected_game_pace", Num(85)>>,
                <<"home_adj_ortg", Num(98)>>, <<"home_adj_drtg", Num(108)>>,
                <<"away_adj_ortg", Num(108)>>, <<"away_adj_drtg", Num(100)>> >> }

(* The dicts of a predict_batch call. *)
BatchFeatureDicts ==
    { << >>,
      << <<"adj_nrtg_diff", None>> >>,
      << <<"adj_nrtg_diff", Rat(35, 10)>> >>,
      << <<"adj_nrtg_diff", Num(-10)>>, <<"projected_game_pace", Rat(985, 10)>> >> }

----------------------------------------------------------------------------
(* The service: one action per handler.  A handler runs to completion, and *)
(* call records the request it served and the response, until the response *)
(* has been sent.  Requests are served once the lifespan startup has run.  *)

(* No BasketballReferenceScraper has been constructed. *)
NoScraper == [pc |-> "none"]

Idle == [op |-> "idle", args |-> None, ret |-> None]

Call(op, args, ret) == [op |-> op, args |-> args, ret |-> ret]

Init ==
    /\ disk \in Disks
    /\ appModel = Unset
    /\ engine = Unset
    /\ call = Idle
    /\ scraper = NoScraper

(* lifespan startup *)
Startup ==
    /\ call = Idle
    /\ appModel = Unset
    /\ appModel' = lifespan(disk)
    /\ call' = Call("lifespan", None, None)
    /\ UNCHANGED <<disk, engine, scraper>>

LoadOrFallback ==
    /\ call = Idle
    /\ LET r == load_model_or_fallback(disk, MODEL_PATH)
       IN  /\ engine' = IF r.exc = "none" THEN r.val ELSE engine
           /\ call' = Call("load_model_or_fallback", MODEL_PATH, r)
    /\ UNCHANGED <<disk, appModel, scraper>>

PredictGame(request) ==
    /\ call = Idle
    /\ appModel # Unset
    /\ call' = Call("predict_game", request, predict_game(appModel, request))
    /\ UNCHANGED <<disk, appModel, engine, scraper>>

PredictBatch(games) ==
    /\ call = Idle
    /\ appModel # Unset
    /\ call' = Call("predict_batch", games, predict_batch(appModel, games))
    /\ UNCHANGED <<disk, appModel, engine, scraper>>

(* engine.predict(features) by the holder of load_model_or_fallback's result *)
EnginePredict(features, fp) ==
    /\ call = Idle
    /\ engine # Unset
    /\ call' = Call("predict", <<features, fp>>, ModelPredict(engine, features, fp))
    /\ UNCHANGED <<disk, appModel, engine, scraper>>

(* engine.predict_batch(features_list); FallbackModel has no predict_batch *)
EnginePredictBatch(features_list, fp) ==
    /\ call = Idle
    /\ engine # Unset
    /\ engine.kind = "xgb"
    /\ call' = Call("model_predict_batch", <<features_list, fp>>,
                    XGBoostNBAModel_predict_batch(engine, features_list, fp))
    /\ UNCHANGED <<disk, appModel, engine, scraper>>

HealthCheck ==
    /\ call = Idle
    /\ appModel # Unset
    /\ call' = Call("health_check", None, health_check(appModel))
    /\ UNCHANGED <<disk, appModel, engine, scraper>>

ReadinessCheck ==
    /\ call = Idle
    /\ appModel # Unset
    /\ call' = Call("readiness_check", None, readiness_check(appModel))
    /\ UNCHANGED <<disk, appModel, engine, scraper>>

(* The response leaves the server. *)
Reply ==
    /\ call # Idle
    /\ call' = Idle
    /\ UNCHANGED <<disk, appModel, engine, scraper>>

Next ==
    \/ Startup
    \/ LoadOrFallback
    \/ \E request \in Requests : PredictGame(request)
    \/ \E games \in SeqsUpTo(BatchGames, MaxBatch) : PredictBatch(games)
    \/ \E features \in FeatureDicts, fp \in Bias : EnginePredict(features, fp)
    \/ \E features_list \in SeqsUpTo(BatchFeatureDicts, MaxBatch), fp \in Bias :
           EnginePredictBatch(features_list, fp)
    \/ HealthCheck
    \/ ReadinessCheck
    \/ Reply

Spec == Init /\ [][Next]_vars

----------------------------------------------------------------------------
(* The feature calculators on their own: a caller holds the arguments of   *)
(* one call, the calculator runs, and call.ret is its outcome.             *)

RatingGrid == { Zero, Num(110), Rat(1182, 10) }
SosGrid == { Num(-3), Zero, Num(100), Num(125) }
LeagueAvgGrid == { Zero, Num(100), Num(110) }
CountGrid == { Zero, Num(12), Num(40) }
PaceGrid == { Zero, Rat(985, 10), Num(130) }
MinutesGrid == { Zero, Num(48), Num(53) }

(* The raw ratings <<home_ortg, home_drtg, away_ortg, away_drtg>> *)
RawRatings ==
    { <<Num(110), Num(110), Num(110), Num(110)>>,
      <<Rat(955, 10), Rat(955, 10), Rat(955, 10), Rat(955, 10)>>,
      <<Rat(1182, 10), Rat(1105, 10), Rat(112005, 1000), Rat(113125, 1000)>>,
      <<Rat(112005, 1000), Num(110), Num(110), Num(110)>> }

Optional(v) == { None, v }

AdjustedRatingsCalls ==
    { [home_ortg |-> raw[1], home_drtg |-> raw[2],
       away_ortg |-> raw[3], away_drtg |-> raw[4],
       home_sos_ortg |-> hso, home_sos_drtg |-> hsd,
       away_sos_ortg |-> aso, away_sos_drtg |-> asd,
       league_avg_ortg |-> lavg[1], league_avg_drtg |-> lavg[2],
       home_adj_ortg |-> hao, home_adj_drtg |-> had,
       away_adj_ortg |-> aao, away_adj_drtg |-> aad] :
        raw \in RawRatings,
        hso \in Optional(Num(100)), hsd \in Optional(Num(125)),
        aso \in Optional(Num(88)), asd \in Optional(Zero),
        lavg \in { <<Num(110), Num(110)>>, <<Zero, Num(100)>> },
        hao \in Optional(Rat(113456, 1000)), had \in Optional(Rat(1129, 10)),
        aao \in Optional(Num(109)), aad \in Optional(Rat(111115, 1000)) }

(* The calls whose arguments are numbers *)
FactorPaceGrid ==
    PaceGrid \cup { Num(100), Num(80), Num(120), Num(90), Num(110), Num(-100) }

LeaguePaceGrid == { Zero, Num(100), Num(-100) }

TeamPaceGrid ==
    { Num(90), Num(95), Rat(10125, 100), Num(105), Rat(1005, 10),
      Rat(10005, 100) }

ScalarCalls ==
    { Call("calculate_adjusted_ortg", <<r, sos, lavg>>, None) :
        r \in RatingGrid, sos \in SosGrid, lavg \in LeagueAvgGrid }
    \cup { Call("calculate_adjusted_drtg", <<r, sos, lavg>>, None) :
             r \in RatingGrid, sos \in SosGrid, lavg \in LeagueAvgGrid }
    \cup { Call("calculate_efg", <<fgm, fg3m, fga>>, None) :
             fgm \in CountGrid, fg3m \in CountGrid, fga \in CountGrid }
    \cup { Call("calculate_tov_pct", <<tov, fga, fta>>, None) :
             tov \in CountGrid \cup {Num(-40)}, fga \in CountGrid,
             fta \in {Zero, Num(25)} }
    \cup { Call("calculate_oreb_pct", <<oreb, opp_dreb>>, None) :
             oreb \in CountGrid, opp_dreb \in CountGrid }
    \cup { Call("calculate_ftr", <<ftm, fga>>, None) :
             ftm \in CountGrid, fga \in CountGrid }
    \cup { Call("calculate_pace", <<possessions, minutes>>, None) :
             possessions \in PaceGrid, minutes \in MinutesGrid }
    \cup { Call("calculate_points_per_100", <<points, possessions>>, None) :
             points \in CountGrid \cup {Num(110)}, possessions \in PaceGrid }
    \cup { Call("pace_adjustment_factor", <<game_pace, league_avg_pace>>, None) :
             game_pace \in FactorPaceGrid, league_avg_pace \in LeaguePaceGrid }
    \cup { Call("project_game_pace", <<h, a, l, fp>>, None) :
             h \in TeamPaceGrid, a \in TeamPaceGrid,
             l \in {Num(100), Rat(10005, 100), Num(110), Zero}, fp \in Bias }

RatingsCalls ==
    { Call("calculate_adjusted_ratings", <<a, fp>>, None) :
        a \in AdjustedRatingsCalls, fp \in Bias }

FourFactorsCalls ==
    { Call("calculate_four_factors_differential", <<home, away, fp>>, None) :
        home \in { FourFactorsOf(t) : t \in Teams },
        away \in { FourFactorsOf(t) : t \in Teams }, fp \in Bias }

SpreadGrid ==
    { None, Zero, Num(-3), Num(-2), Rat(-45, 10), Rat(25, 10),
      Rat(-2995, 1000) }

TotalGrid == { None, Num(220), Rat(2245, 10) }

MovementGrid ==
    { Rat(-25, 10), Num(-1), Rat(-99, 100), Rat(-1, 2), Zero, Rat(1, 2),
      Num(1), Rat(15, 10), Rat(25, 10) }

ThresholdGrid == { Num(1), Rat(1, 2), Rat(25, 10), Zero, Num(-1) }

LineMovementCalls ==
    { Call("calculate_spread_movement", <<o, c>>, None) :
        o \in SpreadGrid, c \in SpreadGrid }
    \cup { Call("calculate_total_movement", <<o, c>>, None) :
             o \in TotalGrid, c \in TotalGrid }
    \cup { Call("classify_line_movement", <<m, t>>, None) :
             m \in MovementGrid, t \in ThresholdGrid }
    \cup { Call("calculate_line_movement_features", <<os, cs, ot, ct, fp>>, None) :
             os \in SpreadGrid, cs \in SpreadGrid, ot \in TotalGrid,
             ct \in TotalGrid, fp \in Bias }
    \cup { Call("is_reverse_line_movement", <<m, pct, t>>, None) :
             m \in MovementGrid, pct \in { Rat(3, 10), Rat(1, 2), Rat(7, 10) },
             t \in { DEFAULT_PUBLIC_THRESHOLD, Rat(6, 10) } }

Observation(timestamp, spread) ==
    <<<<"timestamp", timestamp>>, <<"spread", spread>>>>

Observations ==
    { Observation(Zero, Num(-3)), Observation(Num(600), Num(-2)),
      Observation(Num(1200), Num(-1)), Observation(Num(600), Rat(-15, 10)),
      Observation(Num(3600), Num(-1)), Observation(Zero, Num(-1)),
      << <<"spread", Num(-2)>> >> }

MaxObservations == 3

SteamMoveCalls ==
    { Call("steam_move_detected", <<movements, points, minutes>>, None) :
        movements \in SeqsUpTo(Observations, MaxObservations),
        points \in { Rat(15, 10), Num(1) }, minutes \in { Num(30), Num(10) } }

BpmGrid == { None, Zero, Rat(15, 10), Rat(-2125, 1000), Rat(32, 10) }

BpmDifferentialCalls ==
    { Call("calculate_bpm_differential", <<hb, ab, ht, at, fp>>, None) :
        hb \in BpmGrid, ab \in BpmGrid, ht \in BpmGrid, at \in BpmGrid,
        fp \in Bias }

Player(id, bpm, minutes) ==
    <<<<"player_id", id>>, <<"bpm", bpm>>, <<"minutes", minutes>>>>

Players ==
    { Player(1, Num(8), Num(1000)), Player(2, Num(5), Num(800)),
      Player(3, Num(5), Zero), Player(4, Num(-1), Num(500)),
      << <<"minutes", Num(500)>> >> }

MaxRoster == 3

Rosters == SeqsUpTo(Players, MaxRoster)

TopCounts == { -1, 0, 1, 2, 5 }

InjuredLists == { << >>, <<1>>, <<4, 2>>, <<1, 2, 3, 4>> }

PlayerImpactCalls ==
    { Call("calculate_team_bpm", <<roster>>, None) : roster \in Rosters }
    \cup { Call("calculate_top_n_bpm", <<roster, n>>, None) :
             roster \in Rosters, n \in TopCounts }
    \cup { Call("calculate_injury_adjusted_bpm", <<roster, injured, r>>, None) :
             roster \in Rosters, injured \in InjuredLists,
             r \in { DEFAULT_REPLACEMENT_BPM, Rat(-201, 100) } }

(* The rows of the training frame: the columns of one finished game, from *)
(* teams with every statistic on file.                                   *)
GameRow(home, away, spread, scores) ==
    [home_score |-> scores[1], away_score |-> scores[2],
     home_adj_ortg |-> home.adj_off_rating, home_adj_drtg |-> home.adj_def_rating,
     home_pace |-> home.pace,
     home_efg |-> home.efg_pct, home_tov |-> home.tov_pct,
     home_oreb |-> home.oreb_pct, home_ftr |-> home.ftr,
     home_opp_efg |-> home.opp_efg_pct, home_opp_tov |-> home.opp_tov_pct,
     home_opp_oreb |-> home.opp_oreb_pct, home_opp_ftr |-> home.opp_ftr,
     home_bpm |-> home.team_bpm, home_top_5_bpm |-> home.top_5_bpm,
     away_adj_ortg |-> away.adj_off_rating, away_adj_drtg |-> away.adj_def_rating,
     away_pace |-> away.pace,
     away_efg |-> away.efg_pct, away_tov |-> away.tov_pct,
     away_oreb |-> away.oreb_pct, away_ftr |-> away.ftr,
     away_opp_efg |-> away.opp_efg_pct, away_opp_tov |-> away.opp_tov_pct,
     away_opp_oreb |-> away.opp_oreb_pct, away_opp_ftr |-> away.opp_ftr,
     away_bpm |-> away.team_bpm, away_top_5_bpm |-> away.top_5_bpm,
     opening_spread |-> spread[1], closing_spread |-> spread[2]]

FullTeams ==
    { Team("LAL", Rat(112005, 1000), Rat(113125, 1000), Rat(10125, 100),
           <<Rat(50, 100), Rat(15, 100), Rat(30, 100), Rat(25, 100),
             Rat(55, 100), Rat(12, 100), Rat(28, 100), Rat(28, 100)>>,
           Rat(1134, 10), Rat(1129, 10), Rat(15, 10), Rat(32, 10)),
      Team("GSW", Num(110), Num(110), Num(100),
           <<Rat(52, 100), Rat(14, 100), Rat(25, 100), Rat(25, 100),
             Rat(52, 100), Rat(14, 100), Rat(25, 100), Rat(25, 100)>>,
           Num(110), Num(110), Zero, Zero),
      Team("DEN", Rat(1171, 10), Rat(1123, 10), Rat(975, 10),
           <<Rat(5612, 10000), Rat(131, 1000), Rat(27, 100), Rat(21, 100),
             Rat(53, 100), Rat(125, 1000), Rat(26, 100), Rat(23, 100)>>,
           Rat(1168, 10), Rat(11145, 100), Rat(21, 10), Rat(-4, 10)) }

GameRows ==
    { GameRow(home, away, spread, scores) :
        home \in FullTeams, away \in FullTeams,
        spread \in { <<Zero, Zero>>, <<Num(-3), Rat(-45, 10)>>,
                     <<Rat(25, 10), Rat(25, 10)>> },
        scores \in { <<Num(112), Num(105)>>, <<Num(98), Num(101)>> } }

TrainingCalls == { Call("_calculate_features", row, None) : row \in GameRows }

(* The core operations called on their own: the feature builder on the      *)
(* games of a batch, and the two models on the feature dicts of a batch.    *)
FeatureVectorCalls ==
    { Call("build_feature_vector", <<request>>, None) : request \in BatchGames }

PredictCalls ==
    { Call("model.predict", <<model, features, 0>>, None) :
        model \in {XGBoostNBAModel(Booster1, None), FallbackModel},
        features \in BatchFeatureDicts }

PredictBatchCalls ==
    { Call("model.predict_batch", <<XGBoostNBAModel(Booster1, None), fl, 0>>, None) :
        fl \in SeqsUpTo(BatchFeatureDicts, MaxBatch) }

InitCalc ==
    /\ disk = Disk(Absent, Absent)
    /\ appModel = Unset
    /\ engine = Unset
    /\ scraper = NoScraper
    /\ \/ call \in ScalarCalls
       \/ call \in RatingsCalls
       \/ call \in FourFactorsCalls
       \/ call \in TrainingCalls
       \/ call \in LineMovementCalls
       \/ call \in BpmDifferentialCalls
       \/ call \in PlayerImpactCalls
       \/ call \in SteamMoveCalls
       \/ call \in FeatureVectorCalls
       \/ call \in PredictCalls
       \/ call \in PredictBatchCalls

(* The calculator named op has not run yet. *)
Pending(op) == call.op = op /\ call.ret = None

Returned(ret) ==
    /\ call' = [call EXCEPT !.ret = ret]
    /\ UNCHANGED <<disk, appModel, engine, scraper>>

(* The same, for a calculator that handles a list argument: args is what    *)
(* the caller finds in its arguments afterwards.                            *)
ReturnedLeaving(ret, args) ==
    /\ call' = [call EXCEPT !.ret = ret, !.args = args]
    /\ UNCHANGED <<disk, appModel, engine, scraper>>

AdjustedOrtg ==
    /\ Pending("calculate_adjusted_ortg")
    /\ Returned(calculate_adjusted_ortg(call.args[1], call.args[2], call.args[3]))

AdjustedDrtg ==
    /\ Pending("calculate_adjusted_drtg")
    /\ Returned(calculate_adjusted_drtg(call.args[1], call.args[2], call.args[3]))

Efg ==
    /\ Pending("calculate_efg")
    /\ Returned(calculate_efg(call.args[1], call.args[2], call.args[3]))

TovPct ==
    /\ Pending("calculate_tov_pct")
    /\ Returned(calculate_tov_pct(call.args[1], call.args[2], call.args[3]))

OrebPct ==
    /\ Pending("calculate_oreb_pct")
    /\ Returned(calculate_oreb_pct(call.args[1], call.args[2]))

Ftr ==
    /\ Pending("calculate_ftr")
    /\ Returned(calculate_ftr(call.args[1], call.args[2]))

Pace ==
    /\ Pending("calculate_pace")
    /\ Returned(calculate_pace(call.args[1], call.args[2]))

PointsPer100 ==
    /\ Pending("calculate_points_per_100")
    /\ Returned(calculate_points_per_100(call.args[1], call.args[2]))

PaceAdjustmentFactor ==
    /\ Pending("pace_adjustment_factor")
    /\ Returned(pace_adjustment_factor(call.args[1], call.args[2]))

AdjustedRatings ==
    /\ Pending("calculate_adjusted_ratings")
    /\ Returned(calculate_adjusted_ratings(call.args[1], call.args[2]))

FourFactorsDifferential ==
    /\ Pending("calculate_four_factors_differential")
    /\ Returned(Return(calculate_four_factors_differential(
                           call.args[1], call.args[2], call.args[3])))

CalculateFeatures ==
    /\ Pending("_calculate_features")
    /\ Returned(Return(_calculate_features(call.args)))

SpreadMovement ==
    /\ Pending("calculate_spread_movement")
    /\ Returned(Return(calculate_spread_movement(call.args[1], call.args[2])))

TotalMovement ==
    /\ Pending("calculate_total_movement")
    /\ Returned(Return(calculate_total_movement(call.args[1], call.args[2])))

ClassifyLineMovement ==
    /\ Pending("classify_line_movement")
    /\ Returned(Return(classify_line_movement(call.args[1], call.args[2])))

LineMovementFeatures ==
    /\ Pending("calculate_line_movement_features")
    /\ Returned(Return(calculate_line_movement_features(
           call.args[1], call.args[2], call.args[3], call.args[4], call.args[5])))

BpmDifferential ==
    /\ Pending("calculate_bpm_differential")
    /\ Returned(Return(calculate_bpm_differential(
           call.args[1], call.args[2], call.args[3], call.args[4], call.args[5])))

TeamBpm ==
    /\ Pending("calculate_team_bpm")
    /\ Returned(Return(calculate_team_bpm(call.args[1])))

TopNBpm ==
    /\ Pending("calculate_top_n_bpm")
    /\ ReturnedLeaving(Return(calculate_top_n_bpm(call.args[1], call.args[2])),
                       <<AfterSorted(call.args[1], SortedByBpm(call.args[1])),
                         call.args[2]>>)

InjuryAdjustedBpm ==
    /\ Pending("calculate_injury_adjusted_bpm")
    /\ Returned(Return(calculate_injury_adjusted_bpm(
           call.args[1], call.args[2], call.args[3])))

ProjectGamePace ==
    /\ Pending("project_game_pace")
    /\ Returned(Return(project_game_pace(call.args[1], call.args[2],
                                         call.args[3], call.args[4])))

ReverseLineMovement ==
    /\ Pending("is_reverse_line_movement")
    /\ Returned(Return(is_reverse_line_movement(call.args[1], call.args[2],
                                                call.args[3])))

SteamMoveDetected ==
    /\ Pending("steam_move_detected")
    /\ ReturnedLeaving(Return(steam_move_detected(call.args[1], call.args[2],
                                                  call.args[3])),
                       <<AfterSorted(call.args[1], SortedByTimestamp(call.args[1])),
                         call.args[2], call.args[3]>>)

(* build_feature_vector(request), called on its own *)
BuildFeatureVector ==
    /\ Pending("build_feature_vector")
    /\ Returned(build_feature_vector(call.args[1]))

(* model.predict(features), for either kind of model *)
PredictAlone ==
    /\ Pending("model.predict")
    /\ Returned(ModelPredict(call.args[1], call.args[2], call.args[3]))

(* XGBoostNBAModel.predict_batch(features_list) *)
PredictBatchAlone ==
    /\ Pending("model.predict_batch")
    /\ Returned(XGBoostNBAModel_predict_batch(call.args[1], call.args[2],
                                              call.args[3]))

NextCalc ==
    \/ AdjustedOrtg
    \/ AdjustedDrtg
    \/ Efg
    \/ TovPct
    \/ OrebPct
    \/ Ftr
    \/ Pace
    \/ PointsPer100
    \/ PaceAdjustmentFactor
    \/ AdjustedRatings
    \/ FourFactorsDifferential
    \/ CalculateFeatures
    \/ SpreadMovement
    \/ TotalMovement
    \/ ClassifyLineMovement
    \/ LineMovementFeatures
    \/ BpmDifferential
    \/ TeamBpm
    \/ TopNBpm
    \/ InjuryAdjustedBpm
    \/ ProjectGamePace
    \/ ReverseLineMovement
    \/ SteamMoveDetected
    \/ BuildFeatureVector
    \/ PredictAlone
    \/ PredictBatchAlone

SpecCalc == InitCalc /\ [][NextCalc]_vars

----------------------------------------------------------------------------
(* app/scrapers/basketball_ref.py: one call of _rate_limited_request, a     *)
(* step for each point where the coroutine awaits.                          *)

MAX_RETRIES == 3

BASE_DELAY == 2

RECURSIVE Pow2(_)
Pow2(n) == IF n = 0 THEN 1 ELSE 2 * Pow2(n - 1)

(* What one await self.session.get(url) followed by raise_for_status() can  *)
(* end in: a response (error "none") or an httpx.RequestError.              *)
Response(status, text) == [error |-> "none", status |-> status, text |-> text]

RequestError == [error |-> "RequestError", status |-> 0, text |-> ""]

Outcomes ==
    { Response(200, "<html>"), Response(404, "not found"),
      Response(429, "slow down"), Response(500, "error"),
      Response(503, "unavailable"), RequestError }

(* response.raise_for_status() raises httpx.HTTPStatusError *)
IsStatusError(outcome) == outcome.error = "none" /\ outcome.status >= 400

(* The scraper and the frame of the call: requests is the list of outcomes  *)
(* of the GETs made, slept the list of delays handed to asyncio.sleep.      *)
Scraper(session, url) ==
    [pc |-> "start", session |-> session, url |-> url, attempt |-> 0,
     requests |-> << >>, slept |-> << >>, ret |-> None]

Urls == {"/teams/BOS/2025.html", "/leagues/NBA_2025.html"}

InitScraper ==
    /\ disk = Disk(Absent, Absent)
    /\ appModel = Unset
    /\ engine = Unset
    /\ call = Idle
    /\ scraper \in { Scraper(session, url) : session \in {"none", "open"}, url \in Urls }

(* if not self.session: raise RuntimeError(...) *)
SessionCheck ==
    /\ scraper.pc = "start"
    /\ scraper' = IF scraper.session = "none"
                  THEN [scraper EXCEPT !.pc = "done", !.ret = Raise("RuntimeError")]
                  ELSE [scraper EXCEPT !.pc = "get"]
    /\ UNCHANGED <<disk, appModel, engine, call>>

(* The frame after the body of the loop has handled outcome. *)
Handled(s, outcome) ==
    IF outcome.error = "none" /\ ~IsStatusError(outcome)
    THEN [s EXCEPT !.pc = "done", !.ret = Return(outcome.text)]
    ELSE IF IsStatusError(outcome)
    THEN IF outcome.status = 429 THEN [s EXCEPT !.pc = "sleep"]
         ELSE IF outcome.status >= 500 THEN [s EXCEPT !.pc = "sleep"]
         ELSE [s EXCEPT !.pc = "done", !.ret = Raise("HTTPStatusError")]
    ELSE IF s.attempt < MAX_RETRIES - 1 THEN [s EXCEPT !.pc = "sleep"]
         ELSE [s EXCEPT !.pc = "done", !.ret = Raise("RequestError")]

(* One pass of for attempt in range(MAX_RETRIES): the GET and its handler *)
Attempt(outcome) ==
    /\ scraper.pc = "get"
    /\ scraper.attempt < MAX_RETRIES
    /\ scraper' = Handled([scraper EXCEPT !.requests = Append(@, outcome)], outcome)
    /\ UNCHANGED <<disk, appModel, engine, call>>

(* delay = BASE_DELAY * (2 ** attempt); await asyncio.sleep(delay) *)
Backoff ==
    /\ scraper.pc = "sleep"
    /\ scraper' = [scraper EXCEPT !.pc = "get", !.attempt = @ + 1,
                                  !.slept = Append(@, BASE_DELAY * Pow2(scraper.attempt))]
    /\ UNCHANGED <<disk, appModel, engine, call>>

(* The loop has run out: raise RuntimeError(f"Failed to fetch ...") *)
Exhausted ==
    /\ scraper.pc = "get"
    /\ scraper.attempt >= MAX_RETRIES
    /\ scraper' = [scraper EXCEPT !.pc = "done", !.ret = Raise("RuntimeError")]
    /\ UNCHANGED <<disk, appModel, engine, call>>

NextScraper ==
    \/ SessionCheck
    \/ \E outcome \in Outcomes : Attempt(outcome)
    \/ Backoff
    \/ Exhausted

(* The event loop resumes a coroutine whose await has completed, and every  *)
(* GET ends within TIMEOUT and every sleep within its delay.                *)
SpecScraper == InitScraper /\ [][NextScraper]_vars /\ WF_vars(NextScraper)

----------------------------------------------------------------------------
(* app/models/model_loader.py: a model is saved on an empty disk and loaded *)
(* back from the path it was saved to.                                      *)

ModelPaths ==
    { "models/xgb_nba_v1.json", "models/xgb_nba_v1.bin", "models/xgb_nba_v1.ubj",
      "models/xgb_nba_v1", "models/xgb_nba_v1.bin.json" }

SaveCalls ==
    { Call("save_model", <<model, model_path, feature_names, metadata>>, None) :
        model \in {Booster1, Booster2},
        model_path \in ModelPaths,
        feature_names \in {None, <<"adj_nrtg_diff", "projected_game_pace">>},
        metadata \in {None, << <<"version", "1.0.0">> >>,
                      << <<"feature_names", <<"adj_nrtg_diff">> >> >>} }

InitLoader ==
    /\ disk = [p \in ModelPaths \cup { MetadataPath(q) : q \in ModelPaths } |-> Absent]
    /\ appModel = Unset
    /\ engine = Unset
    /\ scraper = NoScraper
    /\ call \in SaveCalls

SaveModel ==
    /\ Pending("save_model")
    /\ disk' = save_model(disk, call.args[1], call.args[2], call.args[3], call.args[4])
    /\ call' = [call EXCEPT !.ret = Return(None)]
    /\ UNCHANGED <<appModel, engine, scraper>>

(* load_model(model_path), on the path of the save that has just returned *)
LoadSaved ==
    /\ call.op = "save_model"
    /\ call.ret # None
    /\ call' = Call("load_model", <<call.args[2]>>, load_model(disk, call.args[2]))
    /\ UNCHANGED <<disk, appModel, engine, scraper>>

NextLoader ==
    \/ SaveModel
    \/ LoadSaved

SpecLoader == InitLoader /\ [][NextLoader]_vars

----------------------------------------------------------------------------
(* Properties *)

IsNumber(v) == v # None /\ Len(v) = 2 /\ v[2] > 0

InUnit(x) == RLe(Zero, x) /\ RLe(x, One)

(* The handler op has answered. *)
Answered(op) == call.op = op /\ call.ret # None

(* A request that carries none of the optional inputs. *)
NoOptionals(request) ==
    /\ request.home_sos_ortg = None /\ request.home_sos_drtg = None
    /\ request.away_sos_ortg = None /\ request.away_sos_drtg = None
    /\ request.home_team.adj_off_rating = None
    /\ request.home_team.adj_def_rating = None
    /\ request.away_team.adj_off_rating = None
    /\ request.away_team.adj_def_rating = None
    /\ request.home_team.team_bpm = None /\ request.home_team.top_5_bpm = None
    /\ request.away_team.team_bpm = None /\ request.away_team.top_5_bpm = None
    /\ request.opening_spread = None /\ request.current_spread = None

(* The value a rating resolves to when each rating takes its own tier. *)
TierOf(adj, sos_supplied, sos_derived, raw) ==
    IF adj # None THEN adj ELSE IF sos_supplied THEN sos_derived ELSE raw

(* C1: for each side and for every combination of present and absent      *)
(* optional inputs, each adjusted rating calculate_adjusted_ratings returns *)
(* is (rounded to 2 decimals) the pre-computed value of that rating when   *)
(* one is supplied, else the SOS-derived value when the side's SOS data is *)
(* supplied, else the raw rating; the other side's inputs play no part.    *)
C1_PerRatingPrecedence ==
    (Answered("calculate_adjusted_ratings") /\ call.ret.exc = "none") =>
        LET a == call.args[1]
            fp == call.args[2]
            r == call.ret.val
            home_sos == a.home_sos_ortg # None /\ a.home_sos_drtg # None
            away_sos == a.away_sos_ortg # None /\ a.away_sos_drtg # None
        IN  /\ r.home_adj_ortg =
                 PyRound(TierOf(a.home_adj_ortg, home_sos,
                                calculate_adjusted_ortg(a.home_ortg, a.home_sos_drtg,
                                                        a.league_avg_drtg).val,
                                a.home_ortg), 2, fp)
            /\ r.home_adj_drtg =
                 PyRound(TierOf(a.home_adj_drtg, home_sos,
                                calculate_adjusted_drtg(a.home_drtg, a.home_sos_ortg,
                                                        a.league_avg_ortg).val,
                                a.home_drtg), 2, fp)
            /\ r.away_adj_ortg =
                 PyRound(TierOf(a.away_adj_ortg, away_sos,
                                calculate_adjusted_ortg(a.away_ortg, a.away_sos_drtg,
                                                        a.league_avg_drtg).val,
                                a.away_ortg), 2, fp)
            /\ r.away_adj_drtg =
                 PyRound(TierOf(a.away_adj_drtg, away_sos,
                                calculate_adjusted_drtg(a.away_drtg, a.away_sos_ortg,
                                                        a.league_avg_ortg).val,
                                a.away_drtg), 2, fp)

(* C2: for every prediction request build_feature_vector returns a mapping *)
(* whose keys are the 20 names of FEATURE_ORDER in that order, each bound  *)
(* to a number and never to None; get_feature_columns is the same list;    *)
(* and the vector of a 200 response is that mapping.                       *)
C2_FeatureVectorShape ==
    Answered("predict_game") =>
        LET fv == build_feature_vector(call.args)
        IN  /\ fv.exc = "none"
            /\ Len(fv.val) = 20
            /\ Keys(fv.val) = FEATURE_ORDER
            /\ \A i \in 1..Len(fv.val) : IsNumber(fv.val[i][2])
            /\ get_feature_columns = FEATURE_ORDER
            /\ call.ret.status \in {200, 503}
            /\ call.ret.status = 200 => call.ret.body.feature_vector = fv.val

(* A request without any optional field was answered with a vector of the *)
(* 20 features.                                                           *)
C2_Witness ==
    /\ Answered("predict_game")
    /\ call.ret.status = 200
    /\ NoOptionals(call.args)
    /\ Keys(call.ret.body.feature_vector) = FEATURE_ORDER

(* C3: a request with no SOS data, no pre-adjusted ratings, no BPM and no  *)
(* spreads makes build_feature_vector return, with bpm_diff,               *)
(* top_5_bpm_diff, spread_movement and opening_spread 0.0 and the four     *)
(* adjusted-rating features the raw ratings rounded to 2 decimals.         *)
C3_DefaultsPropagate ==
    (Answered("predict_game") /\ NoOptionals(call.args)) =>
        LET request == call.args
            fv == build_feature_vector(request)
        IN  /\ fv.exc = "none"
            /\ call.ret.status \in {200, 503}
            /\ call.ret.status = 200 => call.ret.body.feature_vector = fv.val
            /\ Get(fv.val, "bpm_diff", None) = Zero
            /\ Get(fv.val, "top_5_bpm_diff", None) = Zero
            /\ Get(fv.val, "spread_movement", None) = Zero
            /\ Get(fv.val, "opening_spread", None) = Zero
            /\ Get(fv.val, "home_adj_ortg", None) =
                 PyRound(request.home_team.off_rating, 2, request.fp)
            /\ Get(fv.val, "home_adj_drtg", None) =
                 PyRound(request.home_team.def_rating, 2, request.fp)
            /\ Get(fv.val, "away_adj_ortg", None) =
                 PyRound(request.away_team.off_rating, 2, request.fp)
            /\ Get(fv.val, "away_adj_drtg", None) =
                 PyRound(request.away_team.def_rating, 2, request.fp)

(* Such a request was answered, its raw rating 112.005 rounded up. *)
C3_Witness ==
    /\ Answered("predict_game")
    /\ call.ret.status = 200
    /\ NoOptionals(call.args)
    /\ call.args.home_team.off_rating = Rat(112005, 1000)
    /\ call.args.away_team.team_id = "BOS"
    /\ Get(call.ret.body.feature_vector, "home_adj_ortg", None) = Rat(11201, 100)
    /\ Get(call.ret.body.feature_vector, "bpm_diff", None) = Zero

(* C4: whatever the backend, the home and away win probabilities of a     *)
(* prediction lie in [0, 1] and sum to exactly 1.                         *)
C4_ProbabilitiesSumToOne ==
    /\ (Answered("predict") /\ call.ret.exc = "none") =>
          /\ InUnit(call.ret.val.home_win_prob)
          /\ InUnit(call.ret.val.away_win_prob)
          /\ RAdd(call.ret.val.home_win_prob, call.ret.val.away_win_prob) = One
    /\ (Answered("predict_game") /\ call.ret.status = 200) =>
          /\ InUnit(call.ret.body.home_win_probability)
          /\ InUnit(call.ret.body.away_win_probability)
          /\ RAdd(call.ret.body.home_win_probability,
                  call.ret.body.away_win_probability) = One

(* C5: a batch is an order-preserving map of single predictions: with a    *)
(* model loaded, the batch of N games answers with N entries, the i-th the *)
(* response a single prediction gives game i alone, whatever the other     *)
(* games are; predict_batch of the model is the list of its predictions.   *)
C5_BatchIsMap ==
    /\ (Answered("predict_batch") /\ ~IsNoModel(appModel)) =>
          LET games == call.args
          IN  /\ \A i \in 1..Len(games) :
                    predict_game(appModel, games[i]).status = 200
              /\ call.ret.status = 200
              /\ call.ret.body.total_games = Len(games)
              /\ Len(call.ret.body.predictions) = Len(games)
              /\ \A i \in 1..Len(games) :
                    call.ret.body.predictions[i] =
                        predict_game(appModel, games[i]).body
    /\ (Answered("model_predict_batch") /\ call.ret.exc = "none") =>
          LET features_list == call.args[1]
              fp == call.args[2]
          IN  /\ Len(call.ret.val) = Len(features_list)
              /\ \A i \in 1..Len(features_list) :
                    Return(call.ret.val[i]) =
                        XGBoostNBAModel_predict(engine, features_list[i], fp)

(* A batch of two games with different responses was answered. *)
C5_Witness ==
    /\ Answered("predict_batch")
    /\ call.ret.status = 200
    /\ Len(call.args) = 2
    /\ Len(call.ret.body.predictions) = 2
    /\ call.ret.body.predictions[1] # call.ret.body.predictions[2]

(* C6: load_model_or_fallback never raises: it returns the wrapper of the  *)
(* booster on disk when load_model succeeds and a FallbackModel when the   *)
(* model file is missing or loading fails in any other way.                *)
C6_LoadNeverRaises ==
    Answered("load_model_or_fallback") =>
        /\ call.ret.exc = "none"
        /\ engine = call.ret.val
        /\ IF /\ disk[MODEL_PATH].kind = "booster"
              /\ disk[MetadataPath(MODEL_PATH)].kind \in {"absent", "metadata"}
           THEN /\ call.ret.val.kind = "xgb"
                /\ call.ret.val.model = disk[MODEL_PATH].body
           ELSE call.ret.val = FallbackModel

(* Loading failed on an unreadable file and the fallback was returned. *)
C6_Witness ==
    /\ Answered("load_model_or_fallback")
    /\ disk[MODEL_PATH].kind \in {"garbage", "booster"}
    /\ call.ret = Return(FallbackModel)

(* C7: calculate_adjusted_ortg and calculate_adjusted_drtg return the raw  *)
(* rating for every SOS value <= 0; calculate_efg, calculate_tov_pct,      *)
(* calculate_oreb_pct, calculate_ftr, calculate_pace and                   *)
(* calculate_points_per_100 return 0.0 when their denominator is 0 and the *)
(* quotient of their formula otherwise.                                    *)
C7_GuardedCalculators ==
    call.ret # None =>
        LET x == call.args
        IN  /\ (call.op \in {"calculate_adjusted_ortg", "calculate_adjusted_drtg"}
                /\ RLe(x[2], Zero)) => call.ret = Return(x[1])
            /\ call.op = "calculate_efg" =>
                 call.ret = IF RIsZero(x[3]) THEN Return(Zero)
                            ELSE Return(RDiv(RAdd(x[1], RMul(Rat(1, 2), x[2])), x[3]))
            /\ call.op = "calculate_tov_pct" =>
                 call.ret =
                   IF RIsZero(RAdd(RAdd(x[2], RMul(Rat(44, 100), x[3])), x[1]))
                   THEN Return(Zero)
                   ELSE Return(RDiv(x[1], RAdd(RAdd(x[2], RMul(Rat(44, 100), x[3])),
                                               x[1])))
            /\ call.op = "calculate_oreb_pct" =>
                 call.ret = IF RIsZero(RAdd(x[1], x[2])) THEN Return(Zero)
                            ELSE Return(RDiv(x[1], RAdd(x[1], x[2])))
            /\ call.op = "calculate_ftr" =>
                 call.ret = IF RIsZero(x[2]) THEN Return(Zero)
                            ELSE Return(RDiv(x[1], x[2]))
            /\ call.op = "calculate_pace" =>
                 call.ret = IF RIsZero(x[2]) THEN Return(Zero)
                            ELSE Return(RMul(RDiv(x[1], x[2]), Num(48)))
            /\ call.op = "calculate_points_per_100" =>
                 call.ret = IF RIsZero(x[2]) THEN Return(Zero)
                            ELSE Return(RMul(RDiv(x[1], x[2]), Num(100)))

(* calculate_adjusted_drtg got an SOS of 0 and a league average of 0 and  *)
(* returned the raw rating.                                               *)
C7_Witness ==
    /\ Answered("calculate_adjusted_drtg")
    /\ call.args = <<Rat(1182, 10), Zero, Zero>>
    /\ call.ret = Return(Rat(1182, 10))

(* C8: no feature calculator raises, whatever its numeric arguments: each *)
(* call returns a value.                                                  *)
C8_NoCalculatorRaises ==
    call.ret # None => call.ret.exc = "none"

(* C9: with no SOS data and no pre-computed adjusted ratings,              *)
(* calculate_adjusted_ratings returns adj_nrtg_diff =                      *)
(* round((home_ortg - home_drtg) - (away_ortg - away_drtg) + 3.5, 2), and  *)
(* exactly 3.5 when the four raw ratings are equal.                        *)
C9_HomeCourtBonus ==
    LET a == call.args[1]
    IN  (/\ Answered("calculate_adjusted_ratings")
         /\ a.home_sos_ortg = None /\ a.home_sos_drtg = None
         /\ a.away_sos_ortg = None /\ a.away_sos_drtg = None
         /\ a.home_adj_ortg = None /\ a.home_adj_drtg = None
         /\ a.away_adj_ortg = None /\ a.away_adj_drtg = None) =>
            /\ call.ret.exc = "none"
            /\ call.ret.val.adj_nrtg_diff =
                 PyRound(RAdd(RSub(RSub(a.home_ortg, a.home_drtg),
                                   RSub(a.away_ortg, a.away_drtg)),
                              Rat(35, 10)), 2, call.args[2])
            /\ (a.home_ortg = a.home_drtg /\ a.home_drtg = a.away_ortg
                /\ a.away_ortg = a.away_drtg) =>
                   call.ret.val.adj_nrtg_diff = Rat(35, 10)

(* Four equal raw ratings and nothing else gave 3.5. *)
C9_Witness ==
    /\ Answered("calculate_adjusted_ratings")
    /\ call.args[1].home_sos_ortg = None /\ call.args[1].home_sos_drtg = None
    /\ call.args[1].away_sos_ortg = None /\ call.args[1].away_sos_drtg = None
    /\ call.args[1].home_adj_ortg = None /\ call.args[1].home_adj_drtg = None
    /\ call.args[1].away_adj_ortg = None /\ call.args[1].away_adj_drtg = None
    /\ call.args[1].home_ortg = Rat(955, 10)
    /\ call.args[1].away_drtg = Rat(955, 10)
    /\ call.ret.exc = "none"
    /\ call.ret.val.adj_nrtg_diff = Rat(35, 10)

(* C10: exchanging the eight home values with the eight away values       *)
(* negates the eight factor differentials and the composite differential  *)
(* of calculate_four_factors_differential and exchanges home_composite    *)
(* with away_composite.                                                   *)
C10_Antisymmetric ==
    Answered("calculate_four_factors_differential") =>
        LET r == call.ret.val
            q == calculate_four_factors_differential(call.args[2], call.args[1],
                                                     call.args[3])
        IN  /\ q.efg_diff = RNeg(r.efg_diff)
            /\ q.tov_diff = RNeg(r.tov_diff)
            /\ q.oreb_diff = RNeg(r.oreb_diff)
            /\ q.ftr_diff = RNeg(r.ftr_diff)
            /\ q.def_efg_diff = RNeg(r.def_efg_diff)
            /\ q.def_tov_diff = RNeg(r.def_tov_diff)
            /\ q.def_oreb_diff = RNeg(r.def_oreb_diff)
            /\ q.def_ftr_diff = RNeg(r.def_ftr_diff)
            /\ q.composite = RNeg(r.composite)
            /\ q.home_composite = r.away_composite
            /\ q.away_composite = r.home_composite

(* Two different teams were compared and the composites differ. *)
C10_Witness ==
    /\ Answered("calculate_four_factors_differential")
    /\ call.args[1] # call.args[2]
    /\ call.ret.val.composite # Zero
    /\ call.ret.val.efg_diff # Zero
    /\ call.ret.val.home_composite # call.ret.val.away_composite

(* The request the service receives for the game of a training row: the *)
(* same statistics, the adjusted ratings and both spreads supplied.      *)
RequestOfRow(row, fp) ==
    PredictionRequest(
        Team("home", row.home_adj_ortg, row.home_adj_drtg, row.home_pace,
             <<row.home_efg, row.home_tov, row.home_oreb, row.home_ftr,
               row.home_opp_efg, row.home_opp_tov, row.home_opp_oreb,
               row.home_opp_ftr>>,
             row.home_adj_ortg, row.home_adj_drtg, row.home_bpm,
             row.home_top_5_bpm),
        Team("away", row.away_adj_ortg, row.away_adj_drtg, row.away_pace,
             <<row.away_efg, row.away_tov, row.away_oreb, row.away_ftr,
               row.away_opp_efg, row.away_opp_tov, row.away_opp_oreb,
               row.away_opp_ftr>>,
             row.away_adj_ortg, row.away_adj_drtg, row.away_bpm,
             row.away_top_5_bpm),
        Sos(None, None, None, None),
        <<row.opening_spread, row.closing_spread>>,
        <<None, None>>, fp)

(* The number of decimals the request path keeps of each feature. *)
ServingDigits(name) ==
    CASE name \in {"adj_nrtg_diff", "home_adj_ortg", "home_adj_drtg",
                   "away_adj_ortg", "away_adj_drtg", "bpm_diff",
                   "top_5_bpm_diff", "spread_movement", "opening_spread"} -> 2
      [] name \in {"pace_diff", "projected_game_pace"} -> 1
      [] OTHER -> 4

(* Every model feature of the two dicts agrees to one unit of the last *)
(* decimal the request path keeps.                                     *)
SameFeatures(training, serving) ==
    /\ serving.exc = "none"
    /\ \A i \in 1..Len(FEATURE_ORDER) :
         /\ HasKey(training, FEATURE_ORDER[i])
         /\ HasKey(serving.val, FEATURE_ORDER[i])
         /\ RLe(RAbs(RSub(Get(serving.val, FEATURE_ORDER[i], None),
                          Get(training, FEATURE_ORDER[i], None))),
                Rat(1, Pow10(ServingDigits(FEATURE_ORDER[i]))))

(* C11: every feature the model consumes has the same value, up to the  *)
(* rounding the request path applies, whether _calculate_features       *)
(* computes it from a training row or build_feature_vector computes    *)
(* it from a request carrying the same inputs.                          *)
C11_TrainingServingParity ==
    Answered("_calculate_features") =>
        \A fp \in Bias :
            SameFeatures(call.ret.val,
                         build_feature_vector(RequestOfRow(call.args, fp)))

OppositeSigns(x, y) == RSign(x) * RSign(y) = -1

(* The differential and the probability of the scoring backend point the *)
(* same way.                                                             *)
SameDirection(adj_nrtg_diff, p) ==
    /\ adj_nrtg_diff # None
    /\ \/ RLt(Zero, adj_nrtg_diff) /\ RLt(Rat(1, 2), p)
       \/ RLt(adj_nrtg_diff, Zero) /\ RLt(p, Rat(1, 2))

(* C12: when adj_nrtg_diff and the probability of the scoring backend   *)
(* point the same way, the predicted_spread XGBoostNBAModel.predict      *)
(* returns and the predicted_spread FallbackModel.predict returns for    *)
(* the same features never have opposite signs.                          *)
C12_DirectionalConsistency ==
    (/\ Answered("predict")
     /\ engine.kind = "xgb"
     /\ call.ret.exc = "none"
     /\ SameDirection(Get(call.args[1], "adj_nrtg_diff", Zero),
                      predict_proba(engine, call.args[1]).p)) =>
        \A fp \in Bias :
            FallbackModel_predict(call.args[1], fp).exc = "none" =>
                ~OppositeSigns(call.ret.val.predicted_spread,
                               FallbackModel_predict(call.args[1], fp).val.predicted_spread)

C12_Witness ==
    /\ Answered("predict")
    /\ engine.kind = "xgb"
    /\ call.ret.exc = "none"
    /\ SameDirection(Get(call.args[1], "adj_nrtg_diff", Zero),
                     predict_proba(engine, call.args[1]).p)
    /\ RLt(Rat(9, 10), predict_proba(engine, call.args[1]).p)
    /\ RLt(call.ret.val.predicted_spread, Zero)
    /\ FallbackModel_predict(call.args[1], 0).exc = "none"
    /\ RLt(FallbackModel_predict(call.args[1], 0).val.predicted_spread, Zero)

(* current - opening of a pair, 0.0 when an endpoint is absent *)
MovementOf(opening, current) ==
    IF opening # None /\ current # None
    THEN <<current[1] * opening[2] - opening[1] * current[2],
           current[2] * opening[2]>>
    ELSE <<0, 1>>

SameNumber(x, y) == x # None /\ y # None /\ x[1] * y[2] = y[1] * x[2]

(* C13: calculate_spread_movement and calculate_total_movement return   *)
(* current - opening when both endpoints are present and exactly 0.0     *)
(* when either is absent, never raising; calculate_line_movement_features *)
(* then reports spread_movement 0.0, spread_direction 'stable' and        *)
(* implied_prob_shift 0.0 whenever either spread is absent.               *)
C13_AbsentEndpointIsZeroMovement ==
    /\ (Answered("calculate_spread_movement")
            \/ Answered("calculate_total_movement")) =>
           /\ call.ret.exc = "none"
           /\ SameNumber(call.ret.val, MovementOf(call.args[1], call.args[2]))
    /\ Answered("calculate_line_movement_features") =>
           /\ call.ret.exc = "none"
           /\ (call.args[1] = None \/ call.args[2] = None) =>
                  /\ SameNumber(call.ret.val.spread_movement, <<0, 1>>)
                  /\ call.ret.val.spread_direction = "stable"
                  /\ SameNumber(call.ret.val.implied_prob_shift, <<0, 1>>)

C13_Witness ==
    /\ Answered("calculate_line_movement_features")
    /\ call.args[1] = None
    /\ call.args[2] = Rat(-45, 10)
    /\ call.ret.val.spread_direction = "stable"
    /\ call.ret.val.current_spread = Rat(-45, 10)

(* C14: classify_line_movement(m, t) is 'sharp_home' when m <= -t,      *)
(* otherwise 'sharp_away' when m >= t, otherwise 'stable'; for every     *)
(* positive t exactly one of the three conditions applies to a movement, *)
(* and the movements m = -t and m = +t are sharp, not stable.            *)
C14_ClassificationPartition ==
    Answered("classify_line_movement") =>
        LET m == call.args[1]
            t == call.args[2]
            home == m[1] * t[2] <= -(t[1] * m[2])
            away == m[1] * t[2] >= t[1] * m[2]
            label == call.ret.val
        IN  /\ call.ret.exc = "none"
            /\ label \in {"sharp_home", "sharp_away", "stable"}
            /\ home => label = "sharp_home"
            /\ (away /\ ~home) => label = "sharp_away"
            /\ (~home /\ ~away) => label = "stable"
            /\ t[1] > 0 =>
                   /\ ~(home /\ away)
                   /\ label = "sharp_home" <=> home
                   /\ label = "sharp_away" <=> away
                   /\ label = "stable" <=> (~home /\ ~away)
                   /\ (m = t \/ m = RNeg(t)) => label # "stable"

C14_Witness ==
    /\ Answered("classify_line_movement")
    /\ call.args[2] = Rat(25, 10)
    /\ call.args[1] = Rat(-25, 10)
    /\ call.ret.val = "sharp_home"

OrZero(x) == IF x = None THEN <<0, 1>> ELSE x

(* C15: calculate_bpm_differential never yields a partial top-5          *)
(* differential: to the 2 decimals the result keeps, top_5_bpm_diff is    *)
(* home_top_5_bpm - away_top_5_bpm when both sides supply a value, a      *)
(* value of 0.0 included, and exactly 0.0 when either is absent; bpm_diff *)
(* is home_bpm - away_bpm with an absent side counted as 0.0.             *)
C15_NoPartialTopFive ==
    Answered("calculate_bpm_differential") =>
        /\ call.ret.exc = "none"
        /\ call.ret.val.bpm_diff =
               PyRound(RSub(OrZero(call.args[1]), OrZero(call.args[2])),
                       2, call.args[5])
        /\ (call.args[3] # None /\ call.args[4] # None) =>
               call.ret.val.top_5_bpm_diff =
                   PyRound(RSub(call.args[3], call.args[4]), 2, call.args[5])
        /\ (call.args[3] = None \/ call.args[4] = None) =>
               call.ret.val.top_5_bpm_diff = <<0, 1>>

C15_Witness ==
    /\ Answered("calculate_bpm_differential")
    /\ call.args[3] = Zero
    /\ call.args[4] = Rat(32, 10)
    /\ call.args[1] = None
    /\ call.ret.val.top_5_bpm_diff = Rat(-32, 10)
    /\ call.ret.val.home_top_5_bpm = None

BpmOf(player) == PlayerGet(player, "bpm", <<0, 1>>)

MinutesOf(player) == PlayerGet(player, "minutes", <<0, 1>>)

(* The sum of f over the positions of S, by position *)
RECURSIVE TotalOver(_, _, _)
TotalOver(values, S, i) ==
    IF i > Len(values) THEN <<0, 1>>
    ELSE RAdd(IF i \in S THEN values[i] ELSE <<0, 1>>, TotalOver(values, S, i + 1))

(* x is the mean of the k largest bpm values of the roster: some k      *)
(* positions hold values no smaller than the others, and x is their mean *)
IsMeanOfLargest(x, roster, k) ==
    \E S \in SUBSET (1..Len(roster)) :
        /\ Cardinality(S) = k
        /\ \A i \in S : \A j \in (1..Len(roster)) \ S :
               RLe(BpmOf(roster[j]), BpmOf(roster[i]))
        /\ RMul(x, <<k, 1>>) =
               TotalOver([i \in 1..Len(roster) |-> BpmOf(roster[i])], S, 1)

(* C16: for every roster and every n >= 1, calculate_top_n_bpm returns  *)
(* the arithmetic mean of the min(n, roster size) largest bpm values; it *)
(* returns 0.0 for an empty roster; and every permutation of the roster  *)
(* gives the same result.                                                *)
C16_TopNIsMeanOfLargest ==
    (Answered("calculate_top_n_bpm") /\ call.args[2] >= 1) =>
        LET roster == call.args[1]
            n == call.args[2]
        IN  /\ call.ret.exc = "none"
            /\ roster = << >> => call.ret.val = <<0, 1>>
            /\ roster # << >> =>
                   IsMeanOfLargest(call.ret.val, roster,
                                   IF n < Len(roster) THEN n ELSE Len(roster))
            /\ \A perm \in Permutations(1..Len(roster)) :
                   calculate_top_n_bpm([i \in 1..Len(roster) |-> roster[perm[i]]], n)
                       = call.ret.val

C16_Witness ==
    /\ Answered("calculate_top_n_bpm")
    /\ call.args[2] = 2
    /\ call.args[1] = <<Player(4, Num(-1), Num(500)), Player(3, Num(5), Zero),
                        Player(1, Num(8), Num(1000))>>
    /\ call.ret.val = Rat(13, 2)

AllInjured(roster, injured) ==
    \A i \in 1..Len(roster) : IsInjured(roster[i], injured)

TotalMinutes(roster) ==
    TotalOver([i \in 1..Len(roster) |-> MinutesOf(roster[i])], 1..Len(roster), 1)

(* What a player contributes to the weighted sum *)
Contribution(player, injured, replacement_bpm) ==
    RMul(IF IsInjured(player, injured) THEN replacement_bpm ELSE BpmOf(player),
         MinutesOf(player))

(* C17: calculate_injury_adjusted_bpm is the minutes-weighted mean in   *)
(* which exactly the players whose player_id is in the injured set       *)
(* contribute replacement_bpm at their own minutes weight: with an empty *)
(* injured set it equals calculate_team_bpm on the same roster, with     *)
(* every player injured and positive total minutes it equals             *)
(* replacement_bpm, and both functions return 0.0 when the roster is     *)
(* empty or the total minutes are 0.  (Arithmetic is exact here.)        *)
C17_InjuryAdjustedMean ==
    /\ Answered("calculate_injury_adjusted_bpm") =>
           LET roster == call.args[1]
               injured == call.args[2]
               replacement_bpm == call.args[3]
           IN  /\ call.ret.exc = "none"
               /\ (roster = << >> \/ TotalMinutes(roster) = <<0, 1>>) =>
                      call.ret.val = <<0, 1>>
               /\ (roster # << >> /\ TotalMinutes(roster) # <<0, 1>>) =>
                      RMul(call.ret.val, TotalMinutes(roster)) =
                          TotalOver([i \in 1..Len(roster) |->
                                        Contribution(roster[i], injured,
                                                     replacement_bpm)],
                                    1..Len(roster), 1)
               /\ injured = << >> => call.ret.val = calculate_team_bpm(roster)
               /\ (AllInjured(roster, injured)
                      /\ RLt(<<0, 1>>, TotalMinutes(roster))) =>
                      call.ret.val = replacement_bpm
    /\ Answered("calculate_team_bpm") =>
           /\ call.ret.exc = "none"
           /\ (call.args[1] = << >> \/ TotalMinutes(call.args[1]) = <<0, 1>>) =>
                  call.ret.val = <<0, 1>>

C17_Witness ==
    /\ Answered("calculate_injury_adjusted_bpm")
    /\ call.args[1] = <<Player(1, Num(8), Num(1000)), Player(3, Num(5), Zero),
                        Player(4, Num(-1), Num(500))>>
    /\ call.args[2] = <<1, 2, 3, 4>>
    /\ call.args[3] = Rat(-201, 100)
    /\ call.ret.val = Rat(-201, 100)

(* (h + a) / 2 *)
TeamAverage(h, a) == RDiv(RAdd(h, a), <<2, 1>>)

(* C18: project_game_pace(h, a, L) is round(0.9 * (h + a) / 2 + 0.1 * L, *)
(* 1); it is symmetric in h and a; and it lies between the two-team      *)
(* average (h + a) / 2 and the league average L, to within the 0.05 of   *)
(* the rounding.                                                         *)
C18_PaceRegressesTowardLeague ==
    Answered("project_game_pace") =>
        LET h == call.args[1]
            a == call.args[2]
            l == call.args[3]
            fp == call.args[4]
        IN  /\ call.ret.exc = "none"
            /\ call.ret.val =
                   PyRound(RAdd(RMul(<<9, 10>>, TeamAverage(h, a)),
                                RMul(<<1, 10>>, l)), 1, fp)
            /\ call.ret.val = project_game_pace(a, h, l, fp)
            /\ RLe(RSub(RMin(TeamAverage(h, a), l), <<1, 20>>), call.ret.val)
            /\ RLe(call.ret.val, RAdd(RMax(TeamAverage(h, a), l), <<1, 20>>))

C18_Witness ==
    /\ Answered("project_game_pace")
    /\ call.args[1] = Num(105)
    /\ call.args[2] = Num(95)
    /\ call.args[3] = Num(110)
    /\ call.ret.val = Num(101)

Deviation(game_pace, league_avg_pace) == RAbs(RSub(game_pace, league_avg_pace))

(* C19: for every game pace and league-average pace,                    *)
(* pace_adjustment_factor returns a value within [0.9, 1.1], and the     *)
(* factor never increases as |game_pace - league_avg_pace| grows: it is  *)
(* 1.0 at zero deviation and 0.9 from a deviation of 20% on.             *)
C19_FactorClampedAndMonotone ==
    Answered("pace_adjustment_factor") =>
        LET game_pace == call.args[1]
            league_avg_pace == call.args[2]
        IN  /\ call.ret.exc = "none"
            /\ RLe(<<9, 10>>, call.ret.val)
            /\ RLe(call.ret.val, <<11, 10>>)
            /\ \A other \in FactorPaceGrid :
                   RLe(Deviation(game_pace, league_avg_pace),
                       Deviation(other, league_avg_pace)) =>
                       /\ pace_adjustment_factor(other, league_avg_pace).exc = "none"
                       /\ RLe(pace_adjustment_factor(other, league_avg_pace).val,
                              call.ret.val)
            /\ game_pace = league_avg_pace => call.ret.val = <<1, 1>>
            /\ RLe(RMul(<<1, 5>>, RAbs(league_avg_pace)),
                   Deviation(game_pace, league_avg_pace)) =>
                   call.ret.val = <<9, 10>>

(* The unrounded spread and scores of the predict call in call.args *)
SpreadOfCall ==
    BlendedSpread(Get(call.args[1], "adj_nrtg_diff", <<0, 1>>),
                  predict_proba(engine, call.args[1]).p)

ScoresOfCall == PredictedScores(call.args[1], SpreadOfCall)

ScoredByModel ==
    /\ Answered("predict")
    /\ engine.kind = "xgb"
    /\ call.ret.exc = "none"
    /\ RLt(<<0, 1>>, Get(call.args[1], "projected_game_pace", <<100, 1>>))

(* C20: in the model backend, whenever the projected pace is > 0, after *)
(* the corrective pass the unrounded predicted_home_score minus          *)
(* predicted_away_score is the negated blended predicted_spread, the two *)
(* scores have moved by equal and opposite amounts, and their sum is     *)
(* still predicted_total; the response carries these values rounded to   *)
(* one decimal.                                                          *)
C20_CorrectivePassMatchesSpread ==
    ScoredByModel =>
        /\ RSub(ScoresOfCall.predicted_home_score,
                ScoresOfCall.predicted_away_score) = RNeg(SpreadOfCall)
        /\ RSub(ScoresOfCall.predicted_home_score,
                ClampedScores(call.args[1]).predicted_home_score)
             = RSub(ClampedScores(call.args[1]).predicted_away_score,
                    ScoresOfCall.predicted_away_score)
        /\ RAdd(ScoresOfCall.predicted_home_score,
                ScoresOfCall.predicted_away_score) = ScoresOfCall.predicted_total
        /\ ScoresOfCall.predicted_total =
               RAdd(ClampedScores(call.args[1]).predicted_home_score,
                    ClampedScores(call.args[1]).predicted_away_score)
        /\ call.ret.val.predicted_spread = PyRound(SpreadOfCall, 1, call.args[2])
        /\ call.ret.val.predicted_total =
               PyRound(ScoresOfCall.predicted_total, 1, call.args[2])
        /\ call.ret.val.predicted_home_score # None =>
               call.ret.val.predicted_home_score =
                   PyRound(ScoresOfCall.predicted_home_score, 1, call.args[2])
        /\ call.ret.val.predicted_away_score # None =>
               call.ret.val.predicted_away_score =
                   PyRound(ScoresOfCall.predicted_away_score, 1, call.args[2])
        /\ (call.ret.val.predicted_home_score # None
               /\ call.ret.val.predicted_away_score # None) =>
               RLe(RAbs(RAdd(RSub(call.ret.val.predicted_home_score,
                                  call.ret.val.predicted_away_score),
                             SpreadOfCall)), <<1, 10>>)

C20_Witness ==
    /\ ScoredByModel
    /\ ClampedScores(call.args[1]).predicted_home_score = SCORE_MAX
    /\ ScoresOfCall.predicted_home_score # SCORE_MAX
    /\ call.ret.val.predicted_home_score # None
    /\ call.ret.val.predicted_away_score # None
    /\ call.ret.val.predicted_spread # <<0, 1>>

InScoreRange(score) == RLe(SCORE_MIN, score) /\ RLe(score, SCORE_MAX)

(* C21: every predicted_home_score and predicted_away_score returned by *)
(* XGBoostNBAModel.predict lies within [80, 140], for every feature      *)
(* vector and every probability of the scoring backend.                  *)
C21_ScoresWithinRange ==
    (Answered("predict") /\ engine.kind = "xgb" /\ call.ret.exc = "none") =>
        /\ call.ret.val.predicted_home_score # None =>
               InScoreRange(call.ret.val.predicted_home_score)
        /\ call.ret.val.predicted_away_score # None =>
               InScoreRange(call.ret.val.predicted_away_score)

(* C22: XGBoostNBAModel.predict returns predicted_total,                *)
(* predicted_home_score and predicted_away_score all as numbers exactly  *)
(* when projected_game_pace > 0 and all three as None exactly when it is *)
(* <= 0, never a mix; FallbackModel.predict always returns               *)
(* predicted_total None and no scores.                                   *)
C22_ScoresAllOrNone ==
    (Answered("predict") /\ call.ret.exc = "none") =>
        /\ engine.kind = "xgb" =>
               IF RLt(<<0, 1>>, Get(call.args[1], "projected_game_pace", <<100, 1>>))
               THEN /\ call.ret.val.predicted_total # None
                    /\ call.ret.val.predicted_home_score # None
                    /\ call.ret.val.predicted_away_score # None
               ELSE /\ call.ret.val.predicted_total = None
                    /\ call.ret.val.predicted_home_score = None
                    /\ call.ret.val.predicted_away_score = None
        /\ engine.kind = "fallback" =>
               /\ call.ret.val.predicted_total = None
               /\ "predicted_home_score" \notin DOMAIN call.ret.val
               /\ "predicted_away_score" \notin DOMAIN call.ret.val

(* The value the scoring backend is handed for a feature *)
ValueHanded(features, name) ==
    IF HasKey(features, name) /\ Get(features, name, None) # None
    THEN Get(features, name, None) ELSE <<0, 1>>

(* The six features the spread and the scores are computed from, holding *)
(* the values the scoring backend is handed.                             *)
AsHanded(features) ==
    [i \in 1..6 |->
        <<(<<"adj_nrtg_diff", "projected_game_pace", "home_adj_ortg",
             "home_adj_drtg", "away_adj_ortg", "away_adj_drtg">>)[i],
          ValueHanded(features,
              (<<"adj_nrtg_diff", "projected_game_pace", "home_adj_ortg",
                 "home_adj_drtg", "away_adj_ortg", "away_adj_drtg">>)[i])>>]

(* C23: in the model backend a feature absent from the input vector is  *)
(* treated as 0.0: the list handed to the scoring backend has one entry  *)
(* per trained feature name, in trained order, holding the vector's      *)
(* value where present and 0.0 where the key is absent or None, and the  *)
(* spread and score computations of the same predict call use those same *)
(* values for adj_nrtg_diff, projected_game_pace and the four adjusted   *)
(* ratings.                                                              *)
C23_AbsentFeatureIsZero ==
    (Answered("predict") /\ engine.kind = "xgb") =>
        /\ Len(_prepare_features(engine, call.args[1])) = Len(engine.feature_names)
        /\ \A i \in 1..Len(engine.feature_names) :
               _prepare_features(engine, call.args[1])[i] =
                   ValueHanded(call.args[1], engine.feature_names[i])
        /\ call.ret.exc = "none"
        /\ call.ret.val.predicted_spread =
               XGBoostNBAModel_predict(engine, AsHanded(call.args[1]),
                                       call.args[2]).val.predicted_spread
        /\ call.ret.val.predicted_total =
               XGBoostNBAModel_predict(engine, AsHanded(call.args[1]),
                                       call.args[2]).val.predicted_total

TimestampOf(x) == Get(x, "timestamp", <<0, 1>>)

DistinctTimestamps(movements) ==
    \A i, j \in 1..Len(movements) :
        i # j => TimestampOf(movements[i]) # TimestampOf(movements[j])

(* Positions i and j hold neighbours in time: i is earlier and no       *)
(* observation lies strictly between them.                              *)
NeighboursInTime(movements, i, j) ==
    /\ RLt(TimestampOf(movements[i]), TimestampOf(movements[j]))
    /\ \A k \in 1..Len(movements) :
           ~(/\ RLt(TimestampOf(movements[i]), TimestampOf(movements[k]))
             /\ RLt(TimestampOf(movements[k]), TimestampOf(movements[j])))

(* C24: steam_move_detected is a pairwise scan over the observations in *)
(* timestamp order: it returns true if and only if some pair adjacent in *)
(* that order differs by at least threshold_points in spread and by at   *)
(* most threshold_minutes in time; it returns false for fewer than two   *)
(* observations; and a move made of adjacent steps that are each below   *)
(* threshold_points never triggers it.                                   *)
C24_SteamIsPairwiseScan ==
    Answered("steam_move_detected") =>
        LET movements == call.args[1]
            points == call.args[2]
            minutes == call.args[3]
            ordered == SortedByTimestamp(movements)
        IN  /\ call.ret.exc = "none"
            /\ call.ret.val \in BOOLEAN
            /\ Len(movements) < 2 => call.ret.val = FALSE
            /\ Len(ordered) = Len(movements)
            /\ \A i \in 2..Len(ordered) :
                   RLe(TimestampOf(ordered[i - 1]), TimestampOf(ordered[i]))
            /\ call.ret.val <=>
                   \E i \in 2..Len(ordered) :
                       IsSteamStep(ordered[i - 1], ordered[i], points, minutes)
            /\ DistinctTimestamps(movements) =>
                   (call.ret.val <=>
                        \E i, j \in 1..Len(movements) :
                            /\ NeighboursInTime(movements, i, j)
                            /\ IsSteamStep(movements[i], movements[j],
                                           points, minutes))
            /\ (\A i \in 2..Len(ordered) :
                    RLt(RAbs(RSub(Get(ordered[i], "spread", <<0, 1>>),
                                  Get(ordered[i - 1], "spread", <<0, 1>>))),
                        points)) => call.ret.val = FALSE

C24_Witness ==
    /\ Answered("steam_move_detected")
    /\ call.args[1] = <<Observation(Num(1200), Num(-1)),
                        Observation(Zero, Num(-3)),
                        Observation(Num(600), Num(-2))>>
    /\ call.args[2] = Rat(15, 10)
    /\ call.args[3] = Num(30)
    /\ call.ret.val = FALSE

(* C25: with the default threshold, is_reverse_line_movement returns    *)
(* true when the majority is on home (public_home_pct > 0.5) and the     *)
(* spread moved toward away (spread_movement > 0.5), or the majority is  *)
(* on away (public_home_pct < 0.5) and the spread moved toward home      *)
(* (spread_movement < -0.5), and false in every other case.              *)
C25_FlagsMovementAgainstPublic ==
    (Answered("is_reverse_line_movement")
        /\ call.args[3] = DEFAULT_PUBLIC_THRESHOLD) =>
        /\ call.ret.exc = "none"
        /\ call.ret.val <=>
               \/ RLt(<<1, 2>>, call.args[2]) /\ RLt(<<1, 2>>, call.args[1])
               \/ RLt(call.args[2], <<1, 2>>) /\ RLt(call.args[1], <<-1, 2>>)

(* C29: steam_move_detected is independent of the order in which the    *)
(* observations are passed: every permutation of the list gives the      *)
(* same result, also when several observations share a timestamp.        *)
C29_SteamOrderIndependent ==
    Answered("steam_move_detected") =>
        \A perm \in Permutations(1..Len(call.args[1])) :
            steam_move_detected(
                [i \in 1..Len(call.args[1]) |-> call.args[1][perm[i]]],
                call.args[2], call.args[3]) = call.ret.val

(* What startup leaves in app.state.model for the files on disk *)
ModelAfterStartup ==
    IF load_model(disk, MODEL_PATH).exc = "none"
    THEN load_model(disk, MODEL_PATH).val
    ELSE [kind |-> "none"]

PredictAnswered == Answered("predict_game") \/ Answered("predict_batch")

AvailabilityInvariant ==
    /\ lifespan(disk).kind \in {"none", "xgb"}
    /\ appModel.kind # "unset" => appModel = ModelAfterStartup
    /\ PredictAnswered =>
           /\ call.ret.status = 200 => appModel.kind = "xgb"
           /\ appModel.kind = "none" => call.ret.status = 503
    /\ (Answered("health_check") /\ appModel.kind = "none") =>
           /\ call.ret.body.status = "degraded"
           /\ call.ret.body.model_loaded = FALSE
    /\ (Answered("readiness_check") /\ appModel.kind = "none") =>
           call.ret.body.ready = FALSE

(* C26: startup always completes and leaves app.state.model set to the  *)
(* loaded wrapper if loading succeeded and to None if it failed for any  *)
(* reason; nothing changes that state afterwards; a single or batch      *)
(* prediction response is produced only when the model is not None, and  *)
(* when it is None every predict request is answered with 503, /health   *)
(* reports 'degraded' and /health/ready reports ready = false.           *)
C26_ModelAvailability ==
    /\ []AvailabilityInvariant
    /\ [][appModel.kind # "unset" => appModel' = appModel]_vars

C26_Witness ==
    /\ Answered("predict_batch")
    /\ appModel.kind = "none"
    /\ disk[MODEL_PATH].kind = "garbage"
    /\ Len(call.args) = 2
    /\ call.ret.status = 503

(* The answer of a core operation called on its own with the arguments of c. *)
IsolatedAnswer(c) ==
    CASE c.op = "build_feature_vector" -> build_feature_vector(c.args[1])
      [] c.op = "model.predict" -> ModelPredict(c.args[1], c.args[2], c.args[3])
      [] c.op = "model.predict_batch" ->
             XGBoostNBAModel_predict_batch(c.args[1], c.args[2], c.args[3])
      [] c.op = "calculate_top_n_bpm" ->
             Return(calculate_top_n_bpm(c.args[1], c.args[2]))
      [] c.op = "steam_move_detected" ->
             Return(steam_move_detected(c.args[1], c.args[2], c.args[3]))

CoreOperations ==
    {"build_feature_vector", "model.predict", "model.predict_batch",
     "calculate_top_n_bpm", "steam_move_detected"}

(* Calling the operation again on the arguments as the first call left them *)
(* gives the answer of the first call.                                      *)
SameAnswerAgain ==
    (call.op \in CoreOperations /\ call.ret # None)
        => IsolatedAnswer(call) = call.ret

(* A call that returns leaves the arguments it was handed, and every other  *)
(* piece of state, as they were.                                            *)
LeavesArguments ==
    (call.ret = None /\ call'.ret # None)
        => /\ call'.op = call.op
           /\ call'.args = call.args
           /\ UNCHANGED <<disk, appModel, engine, scraper>>

Retriable(outcome) ==
    \/ outcome.error = "RequestError"
    \/ IsStatusError(outcome) /\ (outcome.status = 429 \/ outcome.status >= 500)

Succeeded(outcome) == outcome.error = "none" /\ outcome.status < 400

(* The loop is between two passes, or the call has ended. *)
BetweenAttempts == scraper.pc \in {"get", "done"}

AtMostMaxRetries == Len(scraper.requests) <= MAX_RETRIES

(* A success ends the call with its body, and no GET follows it; so does a  *)
(* status error that is not retried, with the error.                        *)
EndsOnFirstSuccess ==
    \A k \in 1..Len(scraper.requests) :
        /\ Succeeded(scraper.requests[k])
               => /\ k = Len(scraper.requests)
                  /\ scraper.pc = "done"
                  /\ scraper.ret = Return(scraper.requests[k].text)
        /\ (IsStatusError(scraper.requests[k]) /\ ~Retriable(scraper.requests[k]))
               => /\ k = Len(scraper.requests)
                  /\ scraper.pc = "done"
                  /\ scraper.ret = Raise("HTTPStatusError")

(* The failure of attempt k - 1 is followed by a sleep of BASE_DELAY * 2^(k - 1). *)
BacksOffAfterEachFailure ==
    BetweenAttempts =>
        \A k \in 1..Len(scraper.requests) :
            Retriable(scraper.requests[k])
                => /\ Len(scraper.slept) >= k
                   /\ scraper.slept[k] = BASE_DELAY * Pow2(k - 1)

EndsInErrorAfterThird ==
    (/\ scraper.pc = "done"
     /\ Len(scraper.requests) = MAX_RETRIES
     /\ Retriable(scraper.requests[MAX_RETRIES]))
        => scraper.ret \in {Raise("RuntimeError"), Raise("RequestError")}

NoRequestWithoutSession ==
    scraper.session = "none"
        => /\ scraper.requests = << >>
           /\ scraper.pc = "done" => scraper.ret = Raise("RuntimeError")

(* C28: every call of _rate_limited_request ends, after at most MAX_RETRIES *)
(* GETs; it returns the body of the first successful GET; a status error    *)
(* other than 429 and 5xx is raised at once; a 429, a 5xx and a transport   *)
(* error at attempt k are followed by a sleep of BASE_DELAY * 2^k (2, 4 and *)
(* 8 seconds); the third failure ends the call with an error; and without a *)
(* session the call raises and makes no request.                            *)
C28_RetryProtocol ==
    /\ [](AtMostMaxRetries /\ EndsOnFirstSuccess /\ BacksOffAfterEachFailure)
    /\ [](EndsInErrorAfterThird /\ NoRequestWithoutSession)
    /\ <>(scraper.pc = "done")

(* save_model has returned with the model file in place and the metadata in *)
(* a file of its own.                                                       *)
ModelFileKept ==
    Answered("save_model")
        => /\ MetadataPath(call.args[2]) # call.args[2]
           /\ disk[call.args[2]] = BoosterFile(call.args[1])

(* The load after a save gives a wrapper of the saved booster under the     *)
(* feature names handed to the save.                                        *)
LoadsWhatWasSaved ==
    (call.op = "save_model" /\ call.ret # None /\ call'.op = "load_model")
        => call'.ret = Return([kind |-> "xgb", model |-> call.args[1],
                               feature_names |-> IF call.args[3] = None
                                                 THEN FEATURE_ORDER
                                                 ELSE call.args[3]])

(* C30: for every model_path, whatever its suffix, save_model writes the    *)
(* metadata to a path other than model_path, so that the saved model file   *)
(* is not overwritten, and load_model(model_path) after it returns a        *)
(* wrapper whose feature_names are those given to save_model, FEATURE_ORDER *)
(* when none were given.                                                    *)
C30_SaveLoadRoundTrip ==
    /\ []ModelFileKept
    /\ [][LoadsWhatWasSaved]_vars

====
